---- MODULE Spec2Model ----
(***************************************************************************)
(* Model of coresimd/src/x86/i586/sse41.rs: the SSE4.1 bindings.           *)
(*                                                                         *)
(* A 128-bit register is a sequence of 16 bytes, least significant first:  *)
(* the bit pattern is the only state, and a lane view (i8x16, u16x8,       *)
(* f32x4, ...) is a way of reading it.  Every binding is an operator from  *)
(* its operands to what it returns; one action per binding calls it on     *)
(* operands drawn from small sets and records the call.                    *)
(***************************************************************************)
EXTENDS Integers, Sequences, FiniteSets, TLC

VARIABLES
    op,      \* name of the binding called last
    a,       \* first register operand of that call
    b,       \* second register operand
    mask,    \* third register operand (the mask of the blendv family)
    i,       \* scalar operand (the value of _mm_insert_epi8 / _mm_insert_epi32)
    imm,     \* immediate, lane index or rounding directive as the caller gave it
    ret,     \* what the call returned: a register, or an i32 for the extracts
    lane,    \* lane index handed to extract / extract_unchecked / replace
    branch,  \* literal of the dispatch arm the Immediate Specializer took
    mxcsr    \* ambient rounding mode (MXCSR.RC), read under _MM_FROUND_CUR_DIRECTION

vars == <<op, a, b, mask, i, imm, ret, lane, branch, mxcsr>>

---------------------------------------------------------------------------
(* Bounds of the model.                                                    *)

\* i32 immediates are drawn from -MaxImm..MaxImm and from the ends of i32.
MaxImm == 37

\* The operands of the widening conversions are the byte registers rotated
\* by 0..MaxRot bytes.
MaxRot == 3

\* The operands of the saturating narrow are the windows of four values
\* that start at the first MaxPack places of PackValues.
MaxPack == 12

---------------------------------------------------------------------------
(* SSE4 rounding constants.                                                *)

_MM_FROUND_TO_NEAREST_INT == 0
_MM_FROUND_TO_NEG_INF == 1
_MM_FROUND_TO_POS_INF == 2
_MM_FROUND_TO_ZERO == 3
_MM_FROUND_CUR_DIRECTION == 4
_MM_FROUND_RAISE_EXC == 0
_MM_FROUND_NO_EXC == 8

---------------------------------------------------------------------------
(* Machine integers.                                                       *)

I32Max == 2^30 - 1 + 2^30
I32Min == -I32Max - 1

RECURSIVE BitAnd(_, _)
\* x & y on the two's-complement patterns of x and y (i32 and every narrower
\* integer type): bit by bit from the lowest; the pattern of a negative
\* number ends in ones for ever (-1), that of the others in zeros (0).
BitAnd(x, y) ==
    IF x = 0 \/ y = 0 THEN 0
    ELSE IF x = -1 THEN y
    ELSE IF y = -1 THEN x
    ELSE (x % 2) * (y % 2) + 2 * BitAnd(x \div 2, y \div 2)

\* Bit j (below 31) of the two's-complement pattern of x.
BitOf(x, j) == (x \div (2^j)) % 2

\* `x as u32` for a u8 x, and `x as u32` for a non-negative i32 x.
RECURSIVE BitOr(_, _)
\* x | y on non-negative integers.
BitOr(x, y) ==
    IF x = 0 THEN y
    ELSE IF y = 0 THEN x
    ELSE (IF x % 2 = 1 \/ y % 2 = 1 THEN 1 ELSE 0) + 2 * BitOr(x \div 2, y \div 2)

\* The composite rounding directives.
_MM_FROUND_NINT == 0
_MM_FROUND_FLOOR == BitOr(_MM_FROUND_RAISE_EXC, _MM_FROUND_TO_NEG_INF)
_MM_FROUND_CEIL == BitOr(_MM_FROUND_RAISE_EXC, _MM_FROUND_TO_POS_INF)
_MM_FROUND_TRUNC == BitOr(_MM_FROUND_RAISE_EXC, _MM_FROUND_TO_ZERO)
_MM_FROUND_RINT == BitOr(_MM_FROUND_RAISE_EXC, _MM_FROUND_CUR_DIRECTION)
\* A plausible slip: the line of _MM_FROUND_RINT copied and left as it was.
_MM_FROUND_NEARBYINT_raise == BitOr(_MM_FROUND_RAISE_EXC, _MM_FROUND_CUR_DIRECTION)
_MM_FROUND_NEARBYINT == BitOr(_MM_FROUND_NO_EXC, _MM_FROUND_CUR_DIRECTION)

\* The composites the file declares, each with the target and the policy
\* its declaration combines (for _MM_FROUND_NINT, written 0x00, those its
\* doc comment names).
Composites ==
    { [name |-> "_MM_FROUND_NINT", target |-> _MM_FROUND_TO_NEAREST_INT,
       policy |-> _MM_FROUND_RAISE_EXC, value |-> _MM_FROUND_NINT],
      [name |-> "_MM_FROUND_FLOOR", target |-> _MM_FROUND_TO_NEG_INF,
       policy |-> _MM_FROUND_RAISE_EXC, value |-> _MM_FROUND_FLOOR],
      [name |-> "_MM_FROUND_CEIL", target |-> _MM_FROUND_TO_POS_INF,
       policy |-> _MM_FROUND_RAISE_EXC, value |-> _MM_FROUND_CEIL],
      [name |-> "_MM_FROUND_TRUNC", target |-> _MM_FROUND_TO_ZERO,
       policy |-> _MM_FROUND_RAISE_EXC, value |-> _MM_FROUND_TRUNC],
      [name |-> "_MM_FROUND_RINT", target |-> _MM_FROUND_CUR_DIRECTION,
       policy |-> _MM_FROUND_RAISE_EXC, value |-> _MM_FROUND_RINT],
      [name |-> "_MM_FROUND_NEARBYINT", target |-> _MM_FROUND_CUR_DIRECTION,
       policy |-> _MM_FROUND_NO_EXC, value |-> _MM_FROUND_NEARBYINT] }

AsU32(x) == x

---------------------------------------------------------------------------
(* Bytes and lanes.                                                        *)

Byte == 0..255

RECURSIVE Unsigned(_)
\* The unsigned value of a little-endian byte string (at most 3 bytes here).
Unsigned(bs) ==
    IF bs = <<>> THEN 0 ELSE bs[1] + 256 * Unsigned(Tail(bs))

\* The signed (two's-complement) value of a little-endian byte string of at
\* most 4 bytes.
Signed(bs) ==
    LET n   == Len(bs)
        top == bs[n]
        hi  == IF top >= 128 THEN top - 256 ELSE top
    IN  hi * (256^(n - 1)) + Unsigned(SubSeq(bs, 1, n - 1))

\* The n-byte two's-complement pattern of the integer v, sign-extended past
\* the 4 bytes an integer of the model holds.
Encode(v, n) ==
    [k \in 1..n |->
        IF k <= 4 THEN (v \div (256^(k - 1))) % 256
        ELSE IF v < 0 THEN 255 ELSE 0]

\* Lane idx (from 0) of register r read as lanes of w bytes.
Lane(r, w, idx) == SubSeq(r, idx * w + 1, idx * w + w)

\* Register r with lane idx (from 0, w bytes wide) replaced by the bytes bs.
WithLane(r, w, idx, bs) ==
    [k \in 1..Len(r) |->
        IF k > idx * w /\ k <= idx * w + w THEN bs[k - idx * w] ELSE r[k]]

RECURSIVE Concat(_)
\* The register made of the lanes ls, lane 0 first.
Concat(ls) == IF ls = <<>> THEN <<>> ELSE ls[1] \o Concat(Tail(ls))

\* T::new(l0, l1, ...) for integer lanes of w bytes given by value.
New(vals, w) == Concat([k \in 1..Len(vals) |-> Encode(vals[k], w)])

\* T::splat(v): every one of the n lanes of w bytes holds v.
Splat(v, w, n) == New([k \in 1..n |-> v], w)

Lanes(w) == 16 \div w

---------------------------------------------------------------------------
(* IEEE 754 lanes.  A float lane is its bit pattern (4 or 8 bytes); its    *)
(* value is read as an exact dyadic number (-1)^neg * m * 2^e.  The        *)
(* operands of the model are zeros and normal numbers of few significant   *)
(* bits, on which every product and sum below is exactly representable,    *)
(* so that the hardware's result is the exact one in every rounding mode.  *)

\* Width of the fraction field of a lane of w bytes: binary32, binary64.
FracBits(w) == IF w = 4 THEN 23 ELSE 52
ExpBias(w) == IF w = 4 THEN 127 ELSE 1023

RECURSIVE BitsOfByte(_, _)
BitsOfByte(x, n) == IF n = 0 THEN <<>> ELSE <<x % 2>> \o BitsOfByte(x \div 2, n - 1)

RECURSIVE Bits(_)
\* The bits of a byte string, lowest first.
Bits(bs) == IF bs = <<>> THEN <<>> ELSE BitsOfByte(bs[1], 8) \o Bits(Tail(bs))

RECURSIVE BitsValue(_)
\* The number a bit string (lowest first, at most 30 bits) spells.
BitsValue(bits) == IF bits = <<>> THEN 0 ELSE bits[1] + 2 * BitsValue(Tail(bits))

RECURSIVE BytesOfBits(_)
BytesOfBits(bits) ==
    IF bits = <<>> THEN <<>>
    ELSE <<BitsValue(SubSeq(bits, 1, 8))>> \o BytesOfBits(SubSeq(bits, 9, Len(bits)))

RECURSIVE LowZeros(_)
\* How many zeros a bit string starts with (all of them when it is zero).
LowZeros(bits) ==
    IF bits = <<>> \/ bits[1] = 1 THEN 0 ELSE 1 + LowZeros(Tail(bits))

RECURSIVE Log2(_)
\* Position of the highest set bit of m > 0.
Log2(m) == IF m <= 1 THEN 0 ELSE 1 + Log2(m \div 2)

Dyadic(neg, m, e) == [neg |-> neg, m |-> m, e |-> e]

\* n / 2^k as a dyadic number.
Dy(n, k) == Dyadic(n < 0, IF n < 0 THEN -n ELSE n, -k)

\* The value of the float lane bs: a zero (exponent field 0) or a normal number.
FDecode(bs) ==
    LET w    == Len(bs)
        mb   == FracBits(w)
        bits == Bits(bs)
        neg  == bits[8 * w] = 1
        expv == BitsValue(SubSeq(bits, mb + 1, 8 * w - 1))
        frac == SubSeq(bits, 1, mb)
        tz   == LowZeros(frac)
    IN  IF expv = 0 THEN Dyadic(neg, 0, 0)
        ELSE Dyadic(neg,
                    BitsValue(SubSeq(frac, tz + 1, mb)) + 2^(mb - tz),
                    expv - ExpBias(w) - (mb - tz))

\* The float lane of w bytes holding the dyadic number x exactly.
FEncode(x, w) ==
    LET mb   == FracBits(w)
        p    == Log2(x.m)
        expv == IF x.m = 0 THEN 0 ELSE x.e + p + ExpBias(w)
        low  == BitsOfByte(x.m, p)
        frac == IF x.m = 0 THEN [k \in 1..mb |-> 0]
                ELSE [k \in 1..(mb - p) |-> 0] \o low
    IN  BytesOfBits(frac \o BitsOfByte(expv, 8 * w - 1 - mb)
                         \o <<IF x.neg THEN 1 ELSE 0>>)

\* The rounding-control encoding shared by the immediate's low bits and
\* MXCSR.RC: 0 nearest (ties to even), 1 toward -inf, 2 toward +inf, 3 toward 0.
RoundMagnitude(neg, q, r, d, mode) ==
    IF r = 0 THEN q
    ELSE IF mode = 0 THEN
             (IF 2 * r > d \/ (2 * r = d /\ q % 2 = 1) THEN q + 1 ELSE q)
    ELSE IF mode = 1 THEN (IF neg THEN q + 1 ELSE q)
    ELSE IF mode = 2 THEN (IF neg THEN q ELSE q + 1)
    ELSE q

\* The float lane bs rounded to an integral value in the direction the
\* directive names: bit 2 of the directive asks for the ambient mode rc,
\* bits 1:0 name the direction otherwise; bit 3 (exceptions) changes no value.
RoundLane(bs, rounding, rc) ==
    LET x    == FDecode(bs)
        mode == IF BitOf(rounding, 2) = 1 THEN rc ELSE rounding % 4
        d    == 2^(-x.e)
    IN  IF x.m = 0 \/ x.e >= 0 THEN bs
        ELSE FEncode(Dyadic(x.neg,
                            RoundMagnitude(x.neg, x.m \div d, x.m % d, d, mode),
                            0),
                     Len(bs))

\* x * y
FMul(bx, by) ==
    LET x == FDecode(bx)
        y == FDecode(by)
    IN  FEncode(Dyadic(x.neg # y.neg, x.m * y.m, IF x.m * y.m = 0 THEN 0 ELSE x.e + y.e),
                Len(bx))

\* x + y; an exact zero sum of two numbers of opposite sign is +0, and -0
\* when the ambient mode rc rounds toward -inf.
FAdd(bx, by, rc) ==
    LET x  == FDecode(bx)
        y  == FDecode(by)
        e  == IF x.m = 0 THEN y.e ELSE IF y.m = 0 THEN x.e
              ELSE IF x.e < y.e THEN x.e ELSE y.e
        sx == (IF x.neg THEN -1 ELSE 1) * x.m * (2^(IF x.m = 0 THEN 0 ELSE x.e - e))
        sy == (IF y.neg THEN -1 ELSE 1) * y.m * (2^(IF y.m = 0 THEN 0 ELSE y.e - e))
        s  == sx + sy
    IN  IF s = 0
        THEN FEncode(Dyadic(IF x.neg = y.neg THEN x.neg ELSE rc = 1, 0, 0), Len(bx))
        ELSE FEncode(Dyadic(s < 0, IF s < 0 THEN -s ELSE s, e), Len(bx))

\* f32x4::new / f64x2::new for lanes given as dyadic numbers.
NewF(vals, w) == Concat([k \in 1..Len(vals) |-> FEncode(vals[k], w)])

---------------------------------------------------------------------------
(* Vector Register Catalog (v128): lane read and write.                    *)

\* a.extract(idx): the index is taken modulo the lane count.
extract(r, w, idx) == Lane(r, w, idx % Lanes(w))

\* a.extract_unchecked(idx)
extract_unchecked(r, w, idx) == Lane(r, w, idx % Lanes(w))

\* a.replace(idx, val)
replace(r, w, idx, bs) == WithLane(r, w, idx % Lanes(w), bs)

\* simd_shuffleN(x, y, idx): lane k of the result is lane idx[k] of the
\* lanes of x followed by those of y (lanes of w bytes).
simd_shuffle(x, y, w, idx) ==
    Concat([k \in 1..Len(idx) |-> Lane(x \o y, w, idx[k])])

\* v.as_i16x8(), v.as_i32x4(), v.as_i64x2(): every lane of w bytes cast with
\* `as` to a lane of w2 bytes, which extends a signed source with its sign
\* bit and an unsigned source with zeros.
as_wider(v, w, signed, w2) ==
    Concat([k \in 1..(Len(v) \div w) |->
        LET l == Lane(v, w, k - 1)
        IN  l \o [n \in 1..(w2 - w) |-> IF signed /\ l[w] >= 128 THEN 255 ELSE 0]])

\* mem::transmute of a 32-bit lane to i32: the same 32 bits, read as i32.
transmute_i32(bs) == Signed(bs)

---------------------------------------------------------------------------
(* What a call gives back: the returned value, the lane index it handed    *)
(* to the register catalog and the dispatch arm it took (NoLane, NoBranch  *)
(* when the binding has none).                                             *)

NoLane == 0 - 1
NoBranch == 0 - 2

Out(r, l, br) == [ret |-> r, lane |-> l, branch |-> br]

---------------------------------------------------------------------------
(* Lane extraction and insertion.                                          *)

\* A plausible slip: the index is handed on without the `& 3`.
_mm_extract_ps_unmasked(x, imm8) ==
    Out(transmute_i32(extract(x, 4, AsU32(imm8))), AsU32(imm8), NoBranch)

\* The f32 lane bs cast with `as i32`: its value truncated toward zero, and
\* the nearest end of i32 when it does not fit.
as_i32(bs) ==
    LET x == FDecode(bs)
        p == Log2(x.m) + x.e
    IN  IF x.m = 0 \/ p < 0 THEN 0
        ELSE IF p >= 31 THEN (IF x.neg THEN I32Min ELSE I32Max)
        ELSE (IF x.neg THEN -1 ELSE 1)
                 * (IF x.e >= 0 THEN x.m * 2^x.e ELSE x.m \div 2^(-x.e))

\* A plausible slip: the lane converted with `as i32` instead of transmuted.
_mm_extract_ps_cast(x, imm8) ==
    LET idx == BitAnd(AsU32(imm8), 3)
    IN  Out(as_i32(extract(x, 4, idx)), idx, NoBranch)

_mm_extract_ps(x, imm8) ==
    LET idx == BitAnd(AsU32(imm8), 3)
    IN  Out(transmute_i32(extract(x, 4, idx)), idx, NoBranch)

\* A plausible slip: the byte lane cast to i32 and returned with its sign.
_mm_extract_epi8_signed(x, imm8) ==
    LET idx == AsU32(BitAnd(imm8, 15))
    IN  Out(Signed(extract_unchecked(x, 1, idx)), idx, NoBranch)

_mm_extract_epi8(x, imm8) ==
    LET idx == AsU32(BitAnd(imm8, 15))
    IN  Out(BitAnd(Signed(extract_unchecked(x, 1, idx)), 255), idx, NoBranch)

_mm_extract_epi32(x, imm8) ==
    LET idx == AsU32(BitAnd(imm8, 3))
    IN  Out(Signed(extract_unchecked(x, 4, idx)), idx, NoBranch)

\* A plausible slip: the index of a byte lane masked to three bits.
_mm_insert_epi8_imm3(x, v, imm8) ==
    LET idx == AsU32(BitAnd(imm8, 7))
    IN  Out(replace(x, 1, idx, Encode(v, 1)), idx, NoBranch)

_mm_insert_epi8(x, v, imm8) ==
    LET idx == AsU32(BitAnd(imm8, 15))
    IN  Out(replace(x, 1, idx, Encode(v, 1)), idx, NoBranch)

_mm_insert_epi32(x, v, imm8) ==
    LET idx == AsU32(BitAnd(imm8, 3))
    IN  Out(replace(x, 4, idx, Encode(v, 4)), idx, NoBranch)

---------------------------------------------------------------------------
(* The hardware primitives (the extern "C" block): each is one SSE4.1      *)
(* instruction, which reads of its immediate byte the bits it documents.   *)

\* Lane k of the result is lane k of y where bit k of the immediate is set,
\* of x where it is clear (lanes of w bytes).
BlendImm(x, y, w, imm8) ==
    Concat([k \in 1..Lanes(w) |->
        IF BitOf(imm8, k - 1) = 1 THEN Lane(y, w, k - 1) ELSE Lane(x, w, k - 1)])

\* Lane k of the result is lane k of y where the top bit of lane k of the
\* mask m is set, of x where it is clear (lanes of w bytes).
BlendVar(x, y, m, w) ==
    Concat([k \in 1..Lanes(w) |->
        IF Lane(m, w, k - 1)[w] >= 128 THEN Lane(y, w, k - 1) ELSE Lane(x, w, k - 1)])

pblendvb(x, y, m) == BlendVar(x, y, m, 1)
blendvpd(x, y, m) == BlendVar(x, y, m, 8)
blendvps(x, y, m) == BlendVar(x, y, m, 4)
blendpd(x, y, imm2) == BlendImm(x, y, 8, imm2)
blendps(x, y, imm4) == BlendImm(x, y, 4, imm4)
pblendw(x, y, imm8) == BlendImm(x, y, 2, imm8)

\* INSERTPS: lane imm8[7:6] of y goes to lane imm8[5:4] of x, then every
\* lane whose bit of imm8[3:0] is set is cleared.
insertps(x, y, imm8) ==
    LET src == (imm8 \div 64) % 4
        dst == (imm8 \div 16) % 4
        t   == WithLane(x, 4, dst, Lane(y, 4, src))
    IN  Concat([k \in 1..4 |->
            IF BitOf(imm8, k - 1) = 1 THEN <<0, 0, 0, 0>> ELSE Lane(t, 4, k - 1)])

\* DPPD / DPPS on lanes of w bytes: the products the condition bits
\* (imm8[4 + k]) keep, the others +0.0, summed pairwise, and the sum in
\* the lanes the broadcast bits (imm8[k]) name, +0.0 in the others.
DotProduct(x, y, w, imm8, rc) ==
    LET zero == [k \in 1..w |-> 0]
        p(k) == IF BitOf(imm8, 4 + k) = 1
                THEN FMul(Lane(x, w, k), Lane(y, w, k)) ELSE zero
        sum  == IF w = 8 THEN FAdd(p(0), p(1), rc)
                ELSE FAdd(FAdd(p(0), p(1), rc), FAdd(p(2), p(3), rc), rc)
    IN  Concat([k \in 1..Lanes(w) |-> IF BitOf(imm8, k - 1) = 1 THEN sum ELSE zero])

dppd(x, y, imm8, rc) == DotProduct(x, y, 8, imm8, rc)
dpps(x, y, imm8, rc) == DotProduct(x, y, 4, imm8, rc)

\* ROUNDPD / ROUNDPS: every lane rounded.
roundpd(x, rounding, rc) ==
    Concat([k \in 1..2 |-> RoundLane(Lane(x, 8, k - 1), rounding, rc)])
roundps(x, rounding, rc) ==
    Concat([k \in 1..4 |-> RoundLane(Lane(x, 4, k - 1), rounding, rc)])

\* ROUNDSD / ROUNDSS: lane 0 of y rounded, the upper lanes of x.
roundsd(x, y, rounding, rc) == WithLane(x, 8, 0, RoundLane(Lane(y, 8, 0), rounding, rc))
roundss(x, y, rounding, rc) == WithLane(x, 4, 0, RoundLane(Lane(y, 4, 0), rounding, rc))

Abs(v) == IF v < 0 THEN -v ELSE v

\* MPSADBW: i = imm8[2] * 4, j = imm8[1:0] * 4, and for k = 0..7
\* r[k] = |x[i+k] - y[j]| + |x[i+k+1] - y[j+1]| + |x[i+k+2] - y[j+2]|
\*        + |x[i+k+3] - y[j+3]| on the unsigned bytes, as 16-bit lanes.
mpsadbw(x, y, imm8) ==
    LET ii == BitOf(imm8, 2) * 4
        jj == (imm8 % 4) * 4
        d(k, t) == Abs(x[ii + k + t + 1] - y[jj + t + 1])
    IN  New([k \in 1..8 |-> d(k - 1, 0) + d(k - 1, 1) + d(k - 1, 2) + d(k - 1, 3)], 2)

---------------------------------------------------------------------------
(* Immediate Specializer (constify_imm2!, constify_imm3!, constify_imm4!,  *)
(* constify_imm8!): the runtime value is masked to k bits once, and the    *)
(* arm whose literal equals the masked value is taken; there is one arm    *)
(* for each of the 2^k literals.                                           *)

Arms(k) == 0..(2^k - 1)

constify(k, v) ==
    LET masked == BitAnd(v, 2^k - 1)
    IN  IF masked \in Arms(k) THEN CHOOSE c \in Arms(k) : c = masked ELSE NoBranch

constify_imm2(v) == constify(2, v)
constify_imm3(v) == constify(3, v)
constify_imm4(v) == constify(4, v)
constify_imm8(v) == constify(8, v)

---------------------------------------------------------------------------
(* Blends.                                                                 *)

\* A plausible slip: the operands handed on in the order the doc comment
\* suggests ("if the high bit is set the element of `a` is selected").
_mm_blendv_epi8_swapped(x, y, m) == Out(pblendvb(y, x, m), NoLane, NoBranch)

_mm_blendv_epi8(x, y, m) == Out(pblendvb(x, y, m), NoLane, NoBranch)

\* A plausible slip: the 4-bit specializer where the 8-bit one is needed.
_mm_blend_epi16_imm4(x, y, imm8) ==
    LET c == constify_imm4(imm8) IN Out(pblendw(x, y, c), NoLane, c)

_mm_blend_epi16(x, y, imm8) ==
    LET c == constify_imm8(imm8) IN Out(pblendw(x, y, c), NoLane, c)

_mm_blendv_pd(x, y, m) == Out(blendvpd(x, y, m), NoLane, NoBranch)

_mm_blendv_ps(x, y, m) == Out(blendvps(x, y, m), NoLane, NoBranch)

\* A plausible slip: the runtime value matched against the literals without
\* being masked first, the last arm taking every other value.
_mm_blend_pd_unmasked(x, y, imm2) ==
    LET c == IF imm2 \in Arms(2) THEN imm2 ELSE 3 IN Out(blendpd(x, y, c), NoLane, c)

_mm_blend_pd(x, y, imm2) ==
    LET c == constify_imm2(imm2) IN Out(blendpd(x, y, c), NoLane, c)

\* A plausible slip: the two registers handed on in the wrong order.
_mm_blend_ps_swapped(x, y, imm4) ==
    LET c == constify_imm4(imm4) IN Out(blendps(y, x, c), NoLane, c)

_mm_blend_ps(x, y, imm4) ==
    LET c == constify_imm4(imm4) IN Out(blendps(x, y, c), NoLane, c)

\* A plausible slip, the one the comment of the binding describes: the
\* lane taken from a and stored into b.
_mm_insert_ps_swapped(x, y, imm8) ==
    LET c == constify_imm8(imm8) IN Out(insertps(y, x, c), NoLane, c)

_mm_insert_ps(x, y, imm8) ==
    LET c == constify_imm8(imm8) IN Out(insertps(x, y, c), NoLane, c)

---------------------------------------------------------------------------
(* Dot products, rounding, sums of absolute differences.  rc is the        *)
(* ambient rounding mode the instruction finds in MXCSR.                   *)

\* A plausible slip: the condition field and the broadcast field of the
\* immediate taken for each other.
_mm_dp_pd_fields(x, y, imm8, rc) ==
    LET c == constify_imm8(imm8)
    IN  Out(dppd(x, y, (c % 16) * 16 + (c \div 16), rc), NoLane, c)

_mm_dp_pd(x, y, imm8, rc) ==
    LET c == constify_imm8(imm8) IN Out(dppd(x, y, c, rc), NoLane, c)

_mm_dp_ps(x, y, imm8, rc) ==
    LET c == constify_imm8(imm8) IN Out(dpps(x, y, c, rc), NoLane, c)

_mm_round_pd(x, rounding, rc) ==
    LET c == constify_imm4(rounding) IN Out(roundpd(x, c, rc), NoLane, c)

_mm_round_ps(x, rounding, rc) ==
    LET c == constify_imm4(rounding) IN Out(roundps(x, c, rc), NoLane, c)

\* A plausible slip: the 2-bit specializer, which drops the bit that asks
\* for the ambient mode.
_mm_round_sd_imm2(x, y, rounding, rc) ==
    LET c == constify_imm2(rounding) IN Out(roundsd(x, y, c, rc), NoLane, c)

_mm_round_sd(x, y, rounding, rc) ==
    LET c == constify_imm4(rounding) IN Out(roundsd(x, y, c, rc), NoLane, c)

_mm_round_ss(x, y, rounding, rc) ==
    LET c == constify_imm4(rounding) IN Out(roundss(x, y, c, rc), NoLane, c)

\* The floor and ceil bindings hand the primitive a directive of the catalog.
_mm_floor_pd(x, rc) == Out(roundpd(x, _MM_FROUND_FLOOR, rc), NoLane, NoBranch)

_mm_floor_ps(x, rc) == Out(roundps(x, _MM_FROUND_FLOOR, rc), NoLane, NoBranch)

\* A plausible slip: the two registers handed on in the wrong order.
_mm_floor_sd_swapped(x, y, rc) == Out(roundsd(y, x, _MM_FROUND_FLOOR, rc), NoLane, NoBranch)

_mm_floor_sd(x, y, rc) == Out(roundsd(x, y, _MM_FROUND_FLOOR, rc), NoLane, NoBranch)

_mm_floor_ss(x, y, rc) == Out(roundss(x, y, _MM_FROUND_FLOOR, rc), NoLane, NoBranch)

\* A plausible slip: the body of _mm_floor_pd copied with its directive.
_mm_ceil_pd_floor(x, rc) == Out(roundpd(x, _MM_FROUND_FLOOR, rc), NoLane, NoBranch)

_mm_ceil_pd(x, rc) == Out(roundpd(x, _MM_FROUND_CEIL, rc), NoLane, NoBranch)

_mm_ceil_ps(x, rc) == Out(roundps(x, _MM_FROUND_CEIL, rc), NoLane, NoBranch)

_mm_ceil_sd(x, y, rc) == Out(roundsd(x, y, _MM_FROUND_CEIL, rc), NoLane, NoBranch)

_mm_ceil_ss(x, y, rc) == Out(roundss(x, y, _MM_FROUND_CEIL, rc), NoLane, NoBranch)

\* A plausible slip: the 2-bit specializer, which drops the bit that offsets a.
_mm_mpsadbw_epu8_imm2(x, y, imm8) ==
    LET c == constify_imm2(imm8) IN Out(mpsadbw(x, y, c), NoLane, c)

_mm_mpsadbw_epu8(x, y, imm8) ==
    LET c == constify_imm3(imm8) IN Out(mpsadbw(x, y, c), NoLane, c)

---------------------------------------------------------------------------
(* Per-lane minimum and maximum.                                           *)

RECURSIVE LessUnsigned(_, _)
\* x < y for two lanes of the same width read as unsigned integers: the
\* highest byte in which they differ decides.
LessUnsigned(x, y) ==
    IF x = <<>> THEN FALSE
    ELSE LET n == Len(x)
         IN  IF x[n] # y[n] THEN x[n] < y[n]
             ELSE LessUnsigned(SubSeq(x, 1, n - 1), SubSeq(y, 1, n - 1))

\* x < y for two lanes read as signed integers: the order of the unsigned
\* integers with the sign bit inverted.
LessSigned(x, y) ==
    LET flip(l) == [l EXCEPT ![Len(l)] = (l[Len(l)] + 128) % 256]
    IN  LessUnsigned(flip(x), flip(y))

\* PMINxx / PMAXxx on lanes of w bytes.
PExtremum(x, y, w, signed, max) ==
    Concat([k \in 1..Lanes(w) |->
        LET lx   == Lane(x, w, k - 1)
            ly   == Lane(y, w, k - 1)
            less == IF signed THEN LessSigned(lx, ly) ELSE LessUnsigned(lx, ly)
        IN  IF max THEN (IF less THEN ly ELSE lx) ELSE (IF less THEN lx ELSE ly)])

pmaxsb(x, y) == PExtremum(x, y, 1, TRUE, TRUE)
pmaxuw(x, y) == PExtremum(x, y, 2, FALSE, TRUE)
pmaxsd(x, y) == PExtremum(x, y, 4, TRUE, TRUE)
pmaxud(x, y) == PExtremum(x, y, 4, FALSE, TRUE)
pminsb(x, y) == PExtremum(x, y, 1, TRUE, FALSE)
pminuw(x, y) == PExtremum(x, y, 2, FALSE, FALSE)
pminsd(x, y) == PExtremum(x, y, 4, TRUE, FALSE)
pminud(x, y) == PExtremum(x, y, 4, FALSE, FALSE)

\* PMINSW, the signed instruction of the same width as PMINUW.
pminsw(x, y) == PExtremum(x, y, 2, TRUE, FALSE)

_mm_max_epi8(x, y) == Out(pmaxsb(x, y), NoLane, NoBranch)

_mm_max_epu16(x, y) == Out(pmaxuw(x, y), NoLane, NoBranch)

_mm_max_epi32(x, y) == Out(pmaxsd(x, y), NoLane, NoBranch)

_mm_max_epu32(x, y) == Out(pmaxud(x, y), NoLane, NoBranch)

_mm_min_epi8(x, y) == Out(pminsb(x, y), NoLane, NoBranch)

\* A plausible slip: the signed instruction bound to the unsigned name.
_mm_min_epu16_signed(x, y) == Out(pminsw(x, y), NoLane, NoBranch)

_mm_min_epu16(x, y) == Out(pminuw(x, y), NoLane, NoBranch)

_mm_min_epi32(x, y) == Out(pminsd(x, y), NoLane, NoBranch)

_mm_min_epu32(x, y) == Out(pminud(x, y), NoLane, NoBranch)

---------------------------------------------------------------------------
(* Multiplication.                                                         *)

RECURSIVE Column(_, _, _, _)
\* The sum of the byte products x[k] * y[p - k] for k in j..p: what the
\* bytes of x and y contribute to byte p of their product.
Column(x, y, p, j) ==
    IF j > p THEN 0
    ELSE (IF j < Len(x) /\ p - j < Len(y) THEN x[j + 1] * y[p - j + 1] ELSE 0)
         + Column(x, y, p, j + 1)

RECURSIVE Columns(_, _, _, _, _)
Columns(x, y, n, p, carry) ==
    IF p = n THEN <<>>
    ELSE LET t == carry + Column(x, y, p, 0)
         IN  <<t % 256>> \o Columns(x, y, n, p + 1, t \div 256)

\* The low n bytes of the product of the integers x and y (two's
\* complement or unsigned alike): what a multiply instruction keeps.
Multiply(x, y, n) == Columns(x, y, n, 0, 0)

\* a * b on vectors of lanes of w bytes: the wrapping product of each pair
\* of lanes.
simd_mul(x, y, w) ==
    Concat([k \in 1..Lanes(w) |-> Multiply(Lane(x, w, k - 1), Lane(y, w, k - 1), w)])

\* PMULDQ: lanes 0 and 2 of each operand, sign-extended to 64 bits and
\* multiplied.
pmuldq(x, y) ==
    Concat([k \in 1..2 |->
        Multiply(as_wider(Lane(x, 4, 2 * (k - 1)), 4, TRUE, 8),
                 as_wider(Lane(y, 4, 2 * (k - 1)), 4, TRUE, 8), 8)])

\* PMULUDQ, the unsigned instruction of the same shape.
pmuludq(x, y) ==
    Concat([k \in 1..2 |->
        Multiply(Lane(x, 4, 2 * (k - 1)), Lane(y, 4, 2 * (k - 1)), 8)])

\* A plausible slip: the unsigned instruction bound to the signed name.
_mm_mul_epi32_unsigned(x, y) == Out(pmuludq(x, y), NoLane, NoBranch)

_mm_mul_epi32(x, y) == Out(pmuldq(x, y), NoLane, NoBranch)

\* A plausible slip: a product that does not fit taken to the nearest end
\* of i32 instead of wrapped.
_mm_mullo_epi32_saturating(x, y) ==
    Out(Concat([k \in 1..4 |->
            LET p == Multiply(as_wider(Lane(x, 4, k - 1), 4, TRUE, 8),
                              as_wider(Lane(y, 4, k - 1), 4, TRUE, 8), 8)
                low == SubSeq(p, 1, 4)
            IN  IF as_wider(low, 4, TRUE, 8) = p THEN low
                ELSE IF p[8] >= 128 THEN <<0, 0, 0, 128>>
                ELSE <<255, 255, 255, 127>>]),
        NoLane, NoBranch)

_mm_mullo_epi32(x, y) == Out(simd_mul(x, y, 4), NoLane, NoBranch)

---------------------------------------------------------------------------
(* Saturating narrow and the widening conversions.                         *)

\* PACKUSDW: the four i32 lanes of x, then the four of y, each saturated
\* to the range of u16.
packusdw(x, y) ==
    LET sat(v) == IF v < 0 THEN 0 ELSE IF v > 65535 THEN 65535 ELSE v
    IN  New([k \in 1..8 |->
                sat(Signed(Lane(IF k <= 4 THEN x ELSE y, 4, (k - 1) % 4)))], 2)

\* PACKSSDW, the signed saturation of SSE2.
packssdw(x, y) ==
    LET sat(v) == IF v < -32768 THEN -32768 ELSE IF v > 32767 THEN 32767 ELSE v
    IN  New([k \in 1..8 |->
                sat(Signed(Lane(IF k <= 4 THEN x ELSE y, 4, (k - 1) % 4)))], 2)

\* A plausible slip: the signed saturation where the unsigned one is meant.
_mm_packus_epi32_signed(x, y) == Out(packssdw(x, y), NoLane, NoBranch)

_mm_packus_epi32(x, y) == Out(packusdw(x, y), NoLane, NoBranch)

_mm_cvtepi8_epi16(x) ==
    Out(as_wider(simd_shuffle(x, x, 1, <<0, 1, 2, 3, 4, 5, 6, 7>>), 1, TRUE, 2),
        NoLane, NoBranch)

_mm_cvtepi8_epi32(x) ==
    Out(as_wider(simd_shuffle(x, x, 1, <<0, 1, 2, 3>>), 1, TRUE, 4), NoLane, NoBranch)

_mm_cvtepi8_epi64(x) ==
    Out(as_wider(simd_shuffle(x, x, 1, <<0, 1>>), 1, TRUE, 8), NoLane, NoBranch)

_mm_cvtepi16_epi32(x) ==
    Out(as_wider(simd_shuffle(x, x, 2, <<0, 1, 2, 3>>), 2, TRUE, 4), NoLane, NoBranch)

\* A plausible slip: the shuffle takes the even lanes, not the first two.
_mm_cvtepi16_epi64_even(x) ==
    Out(as_wider(simd_shuffle(x, x, 2, <<0, 2>>), 2, TRUE, 8), NoLane, NoBranch)

_mm_cvtepi16_epi64(x) ==
    Out(as_wider(simd_shuffle(x, x, 2, <<0, 1>>), 2, TRUE, 8), NoLane, NoBranch)

_mm_cvtepi32_epi64(x) ==
    Out(as_wider(simd_shuffle(x, x, 4, <<0, 1>>), 4, TRUE, 8), NoLane, NoBranch)

_mm_cvtepu8_epi16(x) ==
    Out(as_wider(simd_shuffle(x, x, 1, <<0, 1, 2, 3, 4, 5, 6, 7>>), 1, FALSE, 2),
        NoLane, NoBranch)

\* A plausible slip: the shuffle typed ::v32::i8x4 as in _mm_cvtepi8_epi32,
\* so that the cast extends the sign.
_mm_cvtepu8_epi32_signed(x) ==
    Out(as_wider(simd_shuffle(x, x, 1, <<0, 1, 2, 3>>), 1, TRUE, 4), NoLane, NoBranch)

_mm_cvtepu8_epi32(x) ==
    Out(as_wider(simd_shuffle(x, x, 1, <<0, 1, 2, 3>>), 1, FALSE, 4), NoLane, NoBranch)

_mm_cvtepu8_epi64(x) ==
    Out(as_wider(simd_shuffle(x, x, 1, <<0, 1>>), 1, FALSE, 8), NoLane, NoBranch)

_mm_cvtepu16_epi32(x) ==
    Out(as_wider(simd_shuffle(x, x, 2, <<0, 1, 2, 3>>), 2, FALSE, 4), NoLane, NoBranch)

_mm_cvtepu16_epi64(x) ==
    Out(as_wider(simd_shuffle(x, x, 2, <<0, 1>>), 2, FALSE, 8), NoLane, NoBranch)

_mm_cvtepu32_epi64(x) ==
    Out(as_wider(simd_shuffle(x, x, 4, <<0, 1>>), 4, FALSE, 8), NoLane, NoBranch)

---------------------------------------------------------------------------
(* Horizontal minimum.                                                     *)

RECURSIVE MinScan(_, _, _, _)
\* The scan of the lanes k..7 of vals (unsigned 16-bit values), best being
\* the least value so far and at its lane: a later lane wins only when it
\* is strictly less.
MinScan(vals, k, best, at) ==
    IF k > 7 THEN <<best, at>>
    ELSE IF vals[k + 1] < best THEN MinScan(vals, k + 1, vals[k + 1], k)
    ELSE MinScan(vals, k + 1, best, at)

\* PHMINPOSUW: the least unsigned 16-bit lane of x in lane 0, its index in
\* lane 1 (bits 18:16), zeros above.
phminposuw(x) ==
    LET vals == [k \in 1..8 |-> Unsigned(Lane(x, 2, k - 1))]
        m    == MinScan(vals, 1, vals[1], 0)
    IN  New(<<m[1], m[2], 0, 0, 0, 0, 0, 0>>, 2)

\* The same scan on the lanes read as signed 16-bit values.
phminposw(x) ==
    LET vals == [k \in 1..8 |-> Signed(Lane(x, 2, k - 1))]
        m    == MinScan(vals, 1, vals[1], 0)
    IN  New(<<m[1], m[2], 0, 0, 0, 0, 0, 0>>, 2)

\* A plausible slip: the lanes compared as signed integers.
_mm_minpos_epu16_signed(x) == Out(phminposw(x), NoLane, NoBranch)

_mm_minpos_epu16(x) == Out(phminposuw(x), NoLane, NoBranch)

---------------------------------------------------------------------------
(* Operands the calls are made on.                                         *)

Zero == Splat(0, 1, 16)

\* The byte registers of the tests, and registers with the top bit of some
\* lanes set.
Iota      == [k \in 1..16 |-> k - 1]
IotaHigh  == [k \in 1..16 |-> k + 15]
OddOnes   == [k \in 1..16 |-> IF k % 2 = 0 THEN 255 ELSE 0]
NegFirst  == [k \in 1..16 |-> IF k = 1 THEN 255 ELSE k - 1]
Mixed     == [k \in 1..16 |-> (k * 89 + 38) % 256]
HighBits  == [k \in 1..16 |-> IF k % 3 = 0 THEN 128 + k ELSE 127 - k]

IntRegs == {Iota, IotaHigh, NegFirst, Mixed, HighBits}

\* f64x2 and f32x4 registers: the operands of the tests and others with
\* negative lanes, halves (ties) and quarters.
F64A == { NewF(<<Dy(5, 2), Dy(15, 2)>>, 8) }
F64B == { NewF(<<Dy(-5, 1), Dy(-9, 1)>>, 8), NewF(<<Dy(1, 0), Dy(4, 0)>>, 8) }
F32A == { NewF(<<Dy(9, 2), Dy(19, 2), Dy(-7, 2), Dy(-17, 2)>>, 4) }
F32B == { NewF(<<Dy(-3, 1), Dy(7, 1), Dy(0, 0), Dy(31, 1)>>, 4),
          NewF(<<Dy(1, 0), Dy(4, 0), Dy(1, 1), Dy(10, 0)>>, 4) }
\* The operand of tests::_mm_extract_epi32.
I32E == New(<<0, 1, 2, 3>>, 4)
\* The operands of tests::_mm_insert_ps.
F32S == NewF(<<Dy(1, 0), Dy(1, 0), Dy(1, 0), Dy(1, 0)>>, 4)
F32N == NewF(<<Dy(1, 0), Dy(2, 0), Dy(3, 0), Dy(4, 0)>>, 4)
\* The first operands of tests::_mm_dp_pd and tests::_mm_dp_ps.
F64T == NewF(<<Dy(2, 0), Dy(3, 0)>>, 8)
F32T == NewF(<<Dy(2, 0), Dy(3, 0), Dy(1, 0), Dy(10, 0)>>, 4)
\* The operands of the floor, ceil and round tests.
F64H == NewF(<<Dy(5, 1), Dy(9, 1)>>, 8)
F64U == NewF(<<Dy(3, 1), Dy(7, 1)>>, 8)
F32H == NewF(<<Dy(5, 1), Dy(9, 1), Dy(17, 1), Dy(33, 1)>>, 4)
F32U == NewF(<<Dy(3, 1), Dy(7, 1), Dy(15, 1), Dy(31, 1)>>, 4)
F32R == NewF(<<Dy(-7, 2), Dy(-9, 1), Dy(-17, 1), Dy(-33, 1)>>, 4)
F64L == NewF(<<Dy(-3, 1), Dy(-7, 1)>>, 8)
F32L == NewF(<<Dy(-3, 1), Dy(-7, 1), Dy(-15, 1), Dy(-31, 1)>>, 4)
F32M == NewF(<<Dy(-5, 1), Dy(-9, 1), Dy(-17, 1), Dy(-33, 1)>>, 4)
\* The operand of tests::_mm_extract_ps.
F32E == NewF(<<Dy(0, 0), Dy(1, 0), Dy(2, 0), Dy(3, 0)>>, 4)
F64Regs == F64A \cup F64B \cup {F64H, F64U, F64L}
F32Regs == F32A \cup F32B \cup {F32H, F32U, F32R, F32L, F32M}
IntA == {Iota, Mixed}
IntB == {IotaHigh, HighBits}
Masks == {OddOnes, NegFirst, Mixed, HighBits}
RoundingModes == 0..3

\* The register r rotated down by n bytes.
Rot(r, n) == [k \in 1..16 |-> r[((k - 1 + n) % 16) + 1]]

CvtRegs ==
    {Rot(r, n) : r \in IntRegs, n \in 0..MaxRot}
        \cup {Splat(10, 1, 16), Splat(-10, 1, 16), Splat(-10, 2, 8), Splat(-10, 4, 4)}

\* i32 lanes below, inside and above the range of u16.
PackValues ==
    <<1, 2, 3, 4, -1, -2, -3, -4, 0, 65535, 65536, 70000, I32Max, I32Min,
      -65536, 32768, 65534, 131071, 32767, -32769>>
PackRegs == {New(SubSeq(PackValues, j, j + 3), 4) : j \in 1..MaxPack}

\* u16 lanes: a small value, the least value with the top bit set, the greatest.
MinposValues == {13, 32768, 65535}
MinposRegs ==
    [1..8 -> MinposValues]
        \cup {<<23, 18, 44, 97, 50, 13, 67, 66>>, <<0, 18, 44, 97, 50, 13, 67, 66>>,
              <<8, 7, 6, 5, 4, 1, 2, 3>>}

\* The operands of the minimum and maximum tests, and the byte registers.
MinMaxTests ==
    { New(<<1, 4, 5, 8, 9, 12, 13, 16, 17, 20, 21, 24, 25, 28, 29, 32>>, 1),
      New(<<2, 3, 6, 7, 10, 11, 14, 15, 18, 19, 22, 23, 26, 27, 30, 31>>, 1),
      New(<<1, -4, -5, 8, -9, -12, 13, -16, 17, 20, 21, 24, 25, 28, 29, 32>>, 1),
      New(<<2, -3, -6, 7, -10, -11, 14, -15, 18, 19, 22, 23, 26, 27, 30, 31>>, 1),
      New(<<1, 4, 5, 8, 9, 12, 13, 16>>, 2),
      New(<<2, 3, 6, 7, 10, 11, 14, 15>>, 2),
      New(<<1, 4, 5, 8>>, 4),
      New(<<2, 3, 6, 7>>, 4),
      New(<<-1, 4, 5, -7>>, 4),
      New(<<-2, 3, -6, 8>>, 4) }
MinMaxRegs == MinMaxTests \cup IntRegs

\* The operands of the multiplication tests, and registers with the ends
\* of i32 in their lanes.
MulTests ==
    { New(<<1, 1, 1, 1>>, 4),
      New(<<1, 2, 3, 4>>, 4),
      New(<<15, 2, 1234567, 4>>, 4),
      New(<<-20, -256, 666666, 666666>>, 4),
      New(<<15, -2, 1234567, 99999>>, 4),
      New(<<-20, -256, 666666, -99999>>, 4) }
MulRegs ==
    MulTests \cup { New(<<I32Max, I32Min, -1, 0>>, 4),
                    New(<<I32Min, I32Min, I32Max, 2>>, 4),
                    New(<<-1, 3, I32Min, I32Max>>, 4) }

ImmU8 == 0..255
ImmI32 == (-MaxImm..MaxImm) \cup {I32Min, I32Min + 5, I32Max - 6, I32Max}
ScalarI8 == {-128, -1, 32}
ScalarI32 == {I32Min, -1, 32}

---------------------------------------------------------------------------
(* The state machine.                                                      *)

Init ==
    /\ op = "init"
    /\ a = Zero
    /\ b = Zero
    /\ mask = Zero
    /\ i = 0
    /\ imm = 0
    /\ ret = Zero
    /\ lane = NoLane
    /\ branch = NoBranch
    /\ mxcsr = 0

\* A plausible slip: a binding that leaves the ambient rounding mode at the
\* default (round to nearest) when it returns.
Call_resetting(name, x, y, m, v, n, out) ==
    /\ op = "init"
    /\ op' = name
    /\ a' = x
    /\ b' = y
    /\ mask' = m
    /\ i' = v
    /\ imm' = n
    /\ ret' = out.ret
    /\ lane' = out.lane
    /\ branch' = out.branch
    /\ mxcsr' = _MM_FROUND_TO_NEAREST_INT

\* A call of the binding `name` on the operands x, y, m, v and immediate n,
\* which gave back out: the operands are the caller's, by value, and the
\* ambient rounding mode is only read.  The caller makes one call at a time.
Call(name, x, y, m, v, n, out) ==
    /\ op = "init"
    /\ op' = name
    /\ a' = x
    /\ b' = y
    /\ mask' = m
    /\ i' = v
    /\ imm' = n
    /\ ret' = out.ret
    /\ lane' = out.lane
    /\ branch' = out.branch
    /\ UNCHANGED mxcsr

Call_mm_extract_ps ==
    \E x \in IntRegs \cup F32A \cup F32B \cup {F32E}, n \in ImmU8 :
        Call("_mm_extract_ps", x, Zero, Zero, 0, n, _mm_extract_ps(x, n))

Call_mm_extract_epi8 ==
    \E x \in IntRegs, n \in ImmI32 :
        Call("_mm_extract_epi8", x, Zero, Zero, 0, n, _mm_extract_epi8(x, n))

Call_mm_extract_epi32 ==
    \E x \in IntRegs \cup {I32E}, n \in ImmI32 :
        Call("_mm_extract_epi32", x, Zero, Zero, 0, n, _mm_extract_epi32(x, n))

Call_mm_insert_epi8 ==
    \E x \in IntA \cup {Zero}, v \in ScalarI8, n \in ImmU8 :
        Call("_mm_insert_epi8", x, Zero, Zero, v, n, _mm_insert_epi8(x, v, n))

Call_mm_insert_epi32 ==
    \E x \in IntA \cup {Zero}, v \in ScalarI32, n \in ImmU8 :
        Call("_mm_insert_epi32", x, Zero, Zero, v, n, _mm_insert_epi32(x, v, n))

\* The caller has consumed what the call returned and is ready for the next.
Return ==
    /\ op # "init"
    /\ op' = "init"
    /\ a' = Zero
    /\ b' = Zero
    /\ mask' = Zero
    /\ i' = 0
    /\ imm' = 0
    /\ ret' = Zero
    /\ lane' = NoLane
    /\ branch' = NoBranch
    /\ UNCHANGED mxcsr

\* vendor::_MM_SET_ROUNDING_MODE, which the caller may run between calls: the
\* one operation that writes the ambient rounding mode.
SetRoundingMode ==
    /\ op = "init"
    /\ \E m \in RoundingModes : m # mxcsr /\ mxcsr' = m
    /\ UNCHANGED <<op, a, b, mask, i, imm, ret, lane, branch>>

Call_mm_blendv_epi8 ==
    \E x \in IntA, y \in IntB, m \in Masks :
        Call("_mm_blendv_epi8", x, y, m, 0, 0, _mm_blendv_epi8(x, y, m))

Call_mm_blendv_pd ==
    \E x \in F64A, y \in F64B, m \in Masks :
        Call("_mm_blendv_pd", x, y, m, 0, 0, _mm_blendv_pd(x, y, m))

Call_mm_blendv_ps ==
    \E x \in F32A, y \in F32B, m \in Masks :
        Call("_mm_blendv_ps", x, y, m, 0, 0, _mm_blendv_ps(x, y, m))

Call_mm_blend_epi16 ==
    \E x \in {Mixed}, y \in IntB, n \in ImmU8 :
        Call("_mm_blend_epi16", x, y, Zero, 0, n, _mm_blend_epi16(x, y, n))

Call_mm_blend_pd ==
    \E x \in F64A, y \in F64B, n \in ImmU8 :
        Call("_mm_blend_pd", x, y, Zero, 0, n, _mm_blend_pd(x, y, n))

Call_mm_blend_ps ==
    \E x \in F32A, y \in F32B, n \in ImmU8 :
        Call("_mm_blend_ps", x, y, Zero, 0, n, _mm_blend_ps(x, y, n))

Call_mm_insert_ps ==
    \E x \in F32A \cup {F32S}, y \in F32B \cup {F32N}, n \in ImmU8 :
        Call("_mm_insert_ps", x, y, Zero, 0, n, _mm_insert_ps(x, y, n))

Call_mm_dp_pd ==
    \E x \in F64A \cup {F64T}, y \in F64B, n \in ImmU8 :
        Call("_mm_dp_pd", x, y, Zero, 0, n, _mm_dp_pd(x, y, n, mxcsr))

Call_mm_dp_ps ==
    \E x \in F32A \cup {F32T}, y \in F32B, n \in ImmU8 :
        Call("_mm_dp_ps", x, y, Zero, 0, n, _mm_dp_ps(x, y, n, mxcsr))

Call_mm_round_pd ==
    \E x \in F64A \cup F64B, n \in ImmI32 :
        Call("_mm_round_pd", x, Zero, Zero, 0, n, _mm_round_pd(x, n, mxcsr))

Call_mm_round_ps ==
    \E x \in F32A \cup F32B, n \in ImmI32 :
        Call("_mm_round_ps", x, Zero, Zero, 0, n, _mm_round_ps(x, n, mxcsr))

Call_mm_round_sd ==
    \E x \in {F64U}, y \in F64A \cup F64B \cup {F64H}, n \in ImmI32 :
        Call("_mm_round_sd", x, y, Zero, 0, n, _mm_round_sd(x, y, n, mxcsr))

Call_mm_round_ss ==
    \E x \in {F32U}, y \in F32B \cup {F32H, F32R}, n \in ImmI32 :
        Call("_mm_round_ss", x, y, Zero, 0, n, _mm_round_ss(x, y, n, mxcsr))

Call_mm_floor_pd ==
    \E x \in F64Regs : Call("_mm_floor_pd", x, Zero, Zero, 0, 0, _mm_floor_pd(x, mxcsr))

Call_mm_floor_ps ==
    \E x \in F32Regs : Call("_mm_floor_ps", x, Zero, Zero, 0, 0, _mm_floor_ps(x, mxcsr))

Call_mm_floor_sd ==
    \E x \in F64Regs, y \in F64Regs :
        Call("_mm_floor_sd", x, y, Zero, 0, 0, _mm_floor_sd(x, y, mxcsr))

Call_mm_floor_ss ==
    \E x \in F32Regs, y \in F32Regs :
        Call("_mm_floor_ss", x, y, Zero, 0, 0, _mm_floor_ss(x, y, mxcsr))

Call_mm_ceil_pd ==
    \E x \in F64Regs : Call("_mm_ceil_pd", x, Zero, Zero, 0, 0, _mm_ceil_pd(x, mxcsr))

Call_mm_ceil_ps ==
    \E x \in F32Regs : Call("_mm_ceil_ps", x, Zero, Zero, 0, 0, _mm_ceil_ps(x, mxcsr))

Call_mm_ceil_sd ==
    \E x \in F64Regs, y \in F64Regs :
        Call("_mm_ceil_sd", x, y, Zero, 0, 0, _mm_ceil_sd(x, y, mxcsr))

Call_mm_ceil_ss ==
    \E x \in F32Regs, y \in F32Regs :
        Call("_mm_ceil_ss", x, y, Zero, 0, 0, _mm_ceil_ss(x, y, mxcsr))

Call_mm_max_epi8 ==
    \E x \in MinMaxRegs, y \in MinMaxRegs :
        Call("_mm_max_epi8", x, y, Zero, 0, 0, _mm_max_epi8(x, y))

Call_mm_max_epu16 ==
    \E x \in MinMaxRegs, y \in MinMaxRegs :
        Call("_mm_max_epu16", x, y, Zero, 0, 0, _mm_max_epu16(x, y))

Call_mm_max_epi32 ==
    \E x \in MinMaxRegs, y \in MinMaxRegs :
        Call("_mm_max_epi32", x, y, Zero, 0, 0, _mm_max_epi32(x, y))

Call_mm_max_epu32 ==
    \E x \in MinMaxRegs, y \in MinMaxRegs :
        Call("_mm_max_epu32", x, y, Zero, 0, 0, _mm_max_epu32(x, y))

Call_mm_min_epi8 ==
    \E x \in MinMaxRegs, y \in MinMaxRegs :
        Call("_mm_min_epi8", x, y, Zero, 0, 0, _mm_min_epi8(x, y))

Call_mm_min_epu16 ==
    \E x \in MinMaxRegs, y \in MinMaxRegs :
        Call("_mm_min_epu16", x, y, Zero, 0, 0, _mm_min_epu16(x, y))

Call_mm_min_epi32 ==
    \E x \in MinMaxRegs, y \in MinMaxRegs :
        Call("_mm_min_epi32", x, y, Zero, 0, 0, _mm_min_epi32(x, y))

Call_mm_min_epu32 ==
    \E x \in MinMaxRegs, y \in MinMaxRegs :
        Call("_mm_min_epu32", x, y, Zero, 0, 0, _mm_min_epu32(x, y))

Call_mm_mul_epi32 ==
    \E x \in MulRegs, y \in MulRegs :
        Call("_mm_mul_epi32", x, y, Zero, 0, 0, _mm_mul_epi32(x, y))

Call_mm_mullo_epi32 ==
    \E x \in MulRegs, y \in MulRegs :
        Call("_mm_mullo_epi32", x, y, Zero, 0, 0, _mm_mullo_epi32(x, y))

Call_mm_mpsadbw_epu8 ==
    \E x \in IntA, y \in {Iota, HighBits}, n \in ImmU8 :
        Call("_mm_mpsadbw_epu8", x, y, Zero, 0, n, _mm_mpsadbw_epu8(x, y, n))

Call_mm_packus_epi32 ==
    \E x \in PackRegs, y \in PackRegs :
        Call("_mm_packus_epi32", x, y, Zero, 0, 0, _mm_packus_epi32(x, y))

Call_mm_cvtepi8_epi16 ==
    \E x \in CvtRegs : Call("_mm_cvtepi8_epi16", x, Zero, Zero, 0, 0, _mm_cvtepi8_epi16(x))

Call_mm_cvtepi8_epi32 ==
    \E x \in CvtRegs : Call("_mm_cvtepi8_epi32", x, Zero, Zero, 0, 0, _mm_cvtepi8_epi32(x))

Call_mm_cvtepi8_epi64 ==
    \E x \in CvtRegs : Call("_mm_cvtepi8_epi64", x, Zero, Zero, 0, 0, _mm_cvtepi8_epi64(x))

Call_mm_cvtepi16_epi32 ==
    \E x \in CvtRegs : Call("_mm_cvtepi16_epi32", x, Zero, Zero, 0, 0, _mm_cvtepi16_epi32(x))

Call_mm_cvtepi16_epi64 ==
    \E x \in CvtRegs : Call("_mm_cvtepi16_epi64", x, Zero, Zero, 0, 0, _mm_cvtepi16_epi64(x))

Call_mm_cvtepi32_epi64 ==
    \E x \in CvtRegs : Call("_mm_cvtepi32_epi64", x, Zero, Zero, 0, 0, _mm_cvtepi32_epi64(x))

Call_mm_cvtepu8_epi16 ==
    \E x \in CvtRegs : Call("_mm_cvtepu8_epi16", x, Zero, Zero, 0, 0, _mm_cvtepu8_epi16(x))

Call_mm_cvtepu8_epi32 ==
    \E x \in CvtRegs : Call("_mm_cvtepu8_epi32", x, Zero, Zero, 0, 0, _mm_cvtepu8_epi32(x))

Call_mm_cvtepu8_epi64 ==
    \E x \in CvtRegs : Call("_mm_cvtepu8_epi64", x, Zero, Zero, 0, 0, _mm_cvtepu8_epi64(x))

Call_mm_cvtepu16_epi32 ==
    \E x \in CvtRegs : Call("_mm_cvtepu16_epi32", x, Zero, Zero, 0, 0, _mm_cvtepu16_epi32(x))

Call_mm_cvtepu16_epi64 ==
    \E x \in CvtRegs : Call("_mm_cvtepu16_epi64", x, Zero, Zero, 0, 0, _mm_cvtepu16_epi64(x))

Call_mm_cvtepu32_epi64 ==
    \E x \in CvtRegs : Call("_mm_cvtepu32_epi64", x, Zero, Zero, 0, 0, _mm_cvtepu32_epi64(x))

Call_mm_minpos_epu16 ==
    \E v \in MinposRegs :
        Call("_mm_minpos_epu16", New(v, 2), Zero, Zero, 0, 0, _mm_minpos_epu16(New(v, 2)))

\* The lane extractions and insertions.
NextLane ==
    \/ Return
    \/ Call_mm_extract_ps
    \/ Call_mm_extract_epi8
    \/ Call_mm_extract_epi32
    \/ Call_mm_insert_epi8
    \/ Call_mm_insert_epi32

SpecLane == Init /\ [][NextLane]_vars

\* The bindings that resolve an immediate through the Immediate Specializer.
NextImm ==
    \/ Return
    \/ SetRoundingMode
    \/ Call_mm_blend_epi16
    \/ Call_mm_blend_pd
    \/ Call_mm_blend_ps
    \/ Call_mm_insert_ps
    \/ Call_mm_dp_pd
    \/ Call_mm_dp_ps
    \/ Call_mm_round_pd
    \/ Call_mm_round_ps
    \/ Call_mm_round_sd
    \/ Call_mm_round_ss
    \/ Call_mm_mpsadbw_epu8

SpecImm == Init /\ [][NextImm]_vars

\* The blends.
NextBlend ==
    \/ Return
    \/ Call_mm_blendv_epi8
    \/ Call_mm_blendv_pd
    \/ Call_mm_blendv_ps
    \/ Call_mm_blend_epi16
    \/ Call_mm_blend_pd
    \/ Call_mm_blend_ps

SpecBlend == Init /\ [][NextBlend]_vars

\* The saturating narrow and the widening conversions.
NextNarrowWiden ==
    \/ Return
    \/ Call_mm_packus_epi32
    \/ Call_mm_cvtepi8_epi16
    \/ Call_mm_cvtepi8_epi32
    \/ Call_mm_cvtepi8_epi64
    \/ Call_mm_cvtepi16_epi32
    \/ Call_mm_cvtepi16_epi64
    \/ Call_mm_cvtepi32_epi64
    \/ Call_mm_cvtepu8_epi16
    \/ Call_mm_cvtepu8_epi32
    \/ Call_mm_cvtepu8_epi64
    \/ Call_mm_cvtepu16_epi32
    \/ Call_mm_cvtepu16_epi64
    \/ Call_mm_cvtepu32_epi64

SpecNarrowWiden == Init /\ [][NextNarrowWiden]_vars

\* The horizontal minimum.
NextMinpos ==
    \/ Return
    \/ Call_mm_minpos_epu16

SpecMinpos == Init /\ [][NextMinpos]_vars

\* The dot products.
NextDot ==
    \/ Return
    \/ SetRoundingMode
    \/ Call_mm_dp_pd
    \/ Call_mm_dp_ps

SpecDot == Init /\ [][NextDot]_vars

\* The sums of absolute differences.
NextSad ==
    \/ Return
    \/ Call_mm_mpsadbw_epu8

SpecSad == Init /\ [][NextSad]_vars

\* The roundings.
NextRound ==
    \/ Return
    \/ SetRoundingMode
    \/ Call_mm_round_pd
    \/ Call_mm_round_ps
    \/ Call_mm_round_sd
    \/ Call_mm_round_ss
    \/ Call_mm_floor_pd
    \/ Call_mm_floor_ps
    \/ Call_mm_floor_sd
    \/ Call_mm_floor_ss
    \/ Call_mm_ceil_pd
    \/ Call_mm_ceil_ps
    \/ Call_mm_ceil_sd
    \/ Call_mm_ceil_ss

SpecRound == Init /\ [][NextRound]_vars

\* The bindings whose instruction consults the ambient rounding mode.
NextAmbient ==
    \/ Return
    \/ SetRoundingMode
    \/ Call_mm_dp_pd
    \/ Call_mm_dp_ps
    \/ Call_mm_round_pd
    \/ Call_mm_round_ps
    \/ Call_mm_round_sd
    \/ Call_mm_round_ss
    \/ Call_mm_floor_pd
    \/ Call_mm_floor_ps
    \/ Call_mm_floor_sd
    \/ Call_mm_floor_ss
    \/ Call_mm_ceil_pd
    \/ Call_mm_ceil_ps
    \/ Call_mm_ceil_sd
    \/ Call_mm_ceil_ss

SpecAmbient == Init /\ [][NextAmbient]_vars

\* The per-lane minimum and maximum.
NextMinMax ==
    \/ Return
    \/ Call_mm_max_epi8
    \/ Call_mm_max_epu16
    \/ Call_mm_max_epi32
    \/ Call_mm_max_epu32
    \/ Call_mm_min_epi8
    \/ Call_mm_min_epu16
    \/ Call_mm_min_epi32
    \/ Call_mm_min_epu32

SpecMinMax == Init /\ [][NextMinMax]_vars

\* The lane insertions.
NextInsert ==
    \/ Return
    \/ Call_mm_insert_ps
    \/ Call_mm_insert_epi8
    \/ Call_mm_insert_epi32

SpecInsert == Init /\ [][NextInsert]_vars

\* The multiplications.
NextMul ==
    \/ Return
    \/ Call_mm_mul_epi32
    \/ Call_mm_mullo_epi32

SpecMul == Init /\ [][NextMul]_vars

\* Every binding of the model.
Next ==
    \/ NextLane
    \/ NextImm
    \/ NextBlend
    \/ NextNarrowWiden
    \/ NextMinpos
    \/ NextDot
    \/ NextSad
    \/ NextRound
    \/ NextMinMax
    \/ NextMul

Spec == Init /\ [][Next]_vars

---------------------------------------------------------------------------
(* The bindings that go through the Immediate Specializer, the width each  *)
(* declares, and the primitive each resolves to.                           *)

Specialized ==
    { "_mm_blend_pd", "_mm_mpsadbw_epu8", "_mm_blend_ps", "_mm_round_pd",
      "_mm_round_ps", "_mm_round_sd", "_mm_round_ss", "_mm_blend_epi16",
      "_mm_insert_ps", "_mm_dp_pd", "_mm_dp_ps" }

DeclaredWidth(name) ==
    CASE name = "_mm_blend_pd" -> 2
      [] name = "_mm_mpsadbw_epu8" -> 3
      [] name \in {"_mm_blend_ps", "_mm_round_pd", "_mm_round_ps",
                   "_mm_round_sd", "_mm_round_ss"} -> 4
      [] OTHER -> 8

\* The binding `name` called on x, y with the immediate n under the ambient mode rc.
Binding(name, x, y, n, rc) ==
    CASE name = "_mm_blend_pd" -> _mm_blend_pd(x, y, n)
      [] name = "_mm_mpsadbw_epu8" -> _mm_mpsadbw_epu8(x, y, n)
      [] name = "_mm_blend_ps" -> _mm_blend_ps(x, y, n)
      [] name = "_mm_round_pd" -> _mm_round_pd(x, n, rc)
      [] name = "_mm_round_ps" -> _mm_round_ps(x, n, rc)
      [] name = "_mm_round_sd" -> _mm_round_sd(x, y, n, rc)
      [] name = "_mm_round_ss" -> _mm_round_ss(x, y, n, rc)
      [] name = "_mm_blend_epi16" -> _mm_blend_epi16(x, y, n)
      [] name = "_mm_insert_ps" -> _mm_insert_ps(x, y, n)
      [] name = "_mm_dp_pd" -> _mm_dp_pd(x, y, n, rc)
      [] name = "_mm_dp_ps" -> _mm_dp_ps(x, y, n, rc)

\* The hardware primitive behind `name`, invoked directly with the literal c.
Primitive(name, x, y, c, rc) ==
    CASE name = "_mm_blend_pd" -> blendpd(x, y, c)
      [] name = "_mm_mpsadbw_epu8" -> mpsadbw(x, y, c)
      [] name = "_mm_blend_ps" -> blendps(x, y, c)
      [] name = "_mm_round_pd" -> roundpd(x, c, rc)
      [] name = "_mm_round_ps" -> roundps(x, c, rc)
      [] name = "_mm_round_sd" -> roundsd(x, y, c, rc)
      [] name = "_mm_round_ss" -> roundss(x, y, c, rc)
      [] name = "_mm_blend_epi16" -> pblendw(x, y, c)
      [] name = "_mm_insert_ps" -> insertps(x, y, c)
      [] name = "_mm_dp_pd" -> dppd(x, y, c, rc)
      [] name = "_mm_dp_ps" -> dpps(x, y, c, rc)

---------------------------------------------------------------------------
(* C1: masking idempotence.  A specialized binding of declared width k     *)
(* called with the immediate imm returns the register the same call with   *)
(* the immediate imm mod 2^k returns: all the immediates v + 2^k * m give  *)
(* what v gives, so only the low k bits influence the result.              *)
MaskingIdempotent ==
    op \in Specialized =>
        ret = Binding(op, a, b, imm % (2^DeclaredWidth(op)), mxcsr).ret

\* Immediates above the declared width and a negative directive have been
\* resolved, and the call did something to its operand.
MaskingIdempotentWitness ==
    \/ op = "_mm_blend_pd" /\ imm = 254 /\ ret # a
    \/ op = "_mm_round_sd" /\ imm = -15 /\ ret # a

---------------------------------------------------------------------------
(* C3: exhaustive coverage of the Immediate Specializer.  In a call of a   *)
(* binding of declared width k the arm taken is an arm of one of the 2^k   *)
(* literals, never a default; the arm of the literal c is the one taken    *)
(* exactly when imm AND (2^k - 1) = c; and the call returns what the       *)
(* hardware primitive returns when invoked with that literal.              *)
ExhaustiveDispatch ==
    op \in Specialized =>
        LET k == DeclaredWidth(op)
            masked == BitAnd(imm, 2^k - 1)
        IN  /\ branch \in Arms(k)
            /\ \A c \in Arms(k) : (branch = c) <=> (masked = c)
            /\ ret = Primitive(op, a, b, branch, mxcsr)

\* The last of the 256 arms, and the arm of a negative directive, have been taken.
ExhaustiveDispatchWitness ==
    \/ op = "_mm_blend_epi16" /\ imm = 255 /\ branch = 255 /\ ret = b
    \/ op = "_mm_round_pd" /\ imm = -1 /\ branch = 15

---------------------------------------------------------------------------
(* C4: immediate-mask blend.  Lane k of what _mm_blend_epi16 (8 lanes),    *)
(* _mm_blend_ps (4 lanes) and _mm_blend_pd (2 lanes) return is lane k of b *)
(* when bit k of the immediate is set and lane k of a when it is clear.    *)
BlendLaneBytes(name) ==
    CASE name = "_mm_blend_epi16" -> 2
      [] name = "_mm_blend_ps" -> 4
      [] name = "_mm_blend_pd" -> 8

ImmediateBlend ==
    op \in {"_mm_blend_epi16", "_mm_blend_ps", "_mm_blend_pd"} =>
        LET w == BlendLaneBytes(op)
        IN  /\ Len(ret) = 16
            /\ \A k \in 0..(Lanes(w) - 1) :
                  Lane(ret, w, k) =
                      IF (imm \div (2^k)) % 2 = 1 THEN Lane(b, w, k) ELSE Lane(a, w, k)

\* The blend of the test (0b1010_1100) on registers that differ in every lane.
ImmediateBlendWitness ==
    /\ op = "_mm_blend_epi16"
    /\ imm = 172
    /\ \A k \in 0..7 : Lane(a, 2, k) # Lane(b, 2, k)
    /\ Lane(ret, 2, 0) = Lane(a, 2, 0)
    /\ Lane(ret, 2, 7) = Lane(b, 2, 7)

---------------------------------------------------------------------------
(* C5: mask-register blend, as the tests assert it.  Lane k of what        *)
(* _mm_blendv_epi8 (16 lanes), _mm_blendv_ps (4) and _mm_blendv_pd (2)     *)
(* return is lane k of b when the most significant bit of lane k of the    *)
(* mask is set and lane k of a when it is clear, and no other bit of the   *)
(* mask matters: the mask cut down to its lanes' top bits gives the same.  *)
BlendvLaneBytes(name) ==
    CASE name = "_mm_blendv_epi8" -> 1
      [] name = "_mm_blendv_ps" -> 4
      [] name = "_mm_blendv_pd" -> 8

Blendv(name, x, y, m) ==
    CASE name = "_mm_blendv_epi8" -> _mm_blendv_epi8(x, y, m)
      [] name = "_mm_blendv_ps" -> _mm_blendv_ps(x, y, m)
      [] name = "_mm_blendv_pd" -> _mm_blendv_pd(x, y, m)

\* Whether the most significant bit of lane k (w bytes) of m is set.
TopBit(m, w, k) == m[k * w + w] >= 128

\* The mask m with every bit but the top bit of each lane of w bytes cleared.
TopBitsOnly(m, w) ==
    [n \in 1..16 |-> IF n % w = 0 /\ m[n] >= 128 THEN 128 ELSE 0]

---------------------------------------------------------------------------
(* C6: the selection rule the doc comment of _mm_blendv_epi8 gives: for    *)
(* every byte lane the element of a is selected if the high bit of the     *)
(* mask byte is set, and the element of b otherwise.                       *)
DocumentedBlendvEpi8 ==
    op = "_mm_blendv_epi8" =>
        \A k \in 1..16 : ret[k] = IF mask[k] >= 128 THEN a[k] ELSE b[k]

---------------------------------------------------------------------------
(* C2: lane indices wrap modulo the lane count: a call with index imm      *)
(* returns what the call with imm mod 4 (32-bit lanes) or imm mod 16       *)
(* (8-bit lanes) returns, for negative and for too large imm alike, and    *)
(* the index handed to extract / extract_unchecked / replace is a lane of  *)
(* the register.                                                           *)
LaneIndexWraps ==
    /\ op = "_mm_extract_ps" =>
          /\ ret = _mm_extract_ps(a, imm % 4).ret
          /\ lane = imm % 4
    /\ op = "_mm_extract_epi32" =>
          /\ ret = _mm_extract_epi32(a, imm % 4).ret
          /\ lane = imm % 4
    /\ op = "_mm_extract_epi8" =>
          /\ ret = _mm_extract_epi8(a, imm % 16).ret
          /\ lane = imm % 16
    /\ op = "_mm_insert_epi32" =>
          /\ ret = _mm_insert_epi32(a, i, imm % 4).ret
          /\ lane = imm % 4
    /\ op = "_mm_insert_epi8" =>
          /\ ret = _mm_insert_epi8(a, i, imm % 16).ret
          /\ lane = imm % 16

\* A negative index and an index past the last lane have both been wrapped.
LaneIndexWrapsWitness ==
    \/ op = "_mm_extract_epi8" /\ imm = -1 /\ lane = 15 /\ a = NegFirst
    \/ op = "_mm_insert_epi32" /\ imm = 255 /\ lane = 3
---------------------------------------------------------------------------
(* Integers of any width, to state what a 64-bit lane is worth: a sign and *)
(* a magnitude, the magnitude a little-endian byte string with no zero     *)
(* byte at its high end.                                                   *)

RECURSIVE StripHigh(_)
StripHigh(bs) ==
    IF bs = <<>> THEN <<>>
    ELSE IF bs[Len(bs)] = 0 THEN StripHigh(SubSeq(bs, 1, Len(bs) - 1))
    ELSE bs

RECURSIVE Negated(_, _)
\* The two's-complement negation of the byte string bs: every byte
\* complemented, and one added (carry, from the low end).
Negated(bs, carry) ==
    IF bs = <<>> THEN <<>>
    ELSE LET t == 255 - bs[1] + carry
         IN  <<t % 256>> \o Negated(Tail(bs), t \div 256)

\* What the lane bs is worth, read as a signed or as an unsigned integer.
Num(bs, signed) ==
    IF signed /\ bs[Len(bs)] >= 128
    THEN [neg |-> TRUE, mag |-> StripHigh(Negated(bs, 1))]
    ELSE [neg |-> FALSE, mag |-> StripHigh(bs)]

---------------------------------------------------------------------------
(* The twelve widening conversions: the width in bytes of a source lane,   *)
(* whether the source is signed, the width of an output lane.              *)

CvtOps ==
    { "_mm_cvtepi8_epi16", "_mm_cvtepi8_epi32", "_mm_cvtepi8_epi64",
      "_mm_cvtepi16_epi32", "_mm_cvtepi16_epi64", "_mm_cvtepi32_epi64",
      "_mm_cvtepu8_epi16", "_mm_cvtepu8_epi32", "_mm_cvtepu8_epi64",
      "_mm_cvtepu16_epi32", "_mm_cvtepu16_epi64", "_mm_cvtepu32_epi64" }

CvtShape(name) ==
    CASE name = "_mm_cvtepi8_epi16"  -> [from |-> 1, signed |-> TRUE,  to |-> 2]
      [] name = "_mm_cvtepi8_epi32"  -> [from |-> 1, signed |-> TRUE,  to |-> 4]
      [] name = "_mm_cvtepi8_epi64"  -> [from |-> 1, signed |-> TRUE,  to |-> 8]
      [] name = "_mm_cvtepi16_epi32" -> [from |-> 2, signed |-> TRUE,  to |-> 4]
      [] name = "_mm_cvtepi16_epi64" -> [from |-> 2, signed |-> TRUE,  to |-> 8]
      [] name = "_mm_cvtepi32_epi64" -> [from |-> 4, signed |-> TRUE,  to |-> 8]
      [] name = "_mm_cvtepu8_epi16"  -> [from |-> 1, signed |-> FALSE, to |-> 2]
      [] name = "_mm_cvtepu8_epi32"  -> [from |-> 1, signed |-> FALSE, to |-> 4]
      [] name = "_mm_cvtepu8_epi64"  -> [from |-> 1, signed |-> FALSE, to |-> 8]
      [] name = "_mm_cvtepu16_epi32" -> [from |-> 2, signed |-> FALSE, to |-> 4]
      [] name = "_mm_cvtepu16_epi64" -> [from |-> 2, signed |-> FALSE, to |-> 8]
      [] name = "_mm_cvtepu32_epi64" -> [from |-> 4, signed |-> FALSE, to |-> 8]

Cvt(name, x) ==
    CASE name = "_mm_cvtepi8_epi16"  -> _mm_cvtepi8_epi16(x)
      [] name = "_mm_cvtepi8_epi32"  -> _mm_cvtepi8_epi32(x)
      [] name = "_mm_cvtepi8_epi64"  -> _mm_cvtepi8_epi64(x)
      [] name = "_mm_cvtepi16_epi32" -> _mm_cvtepi16_epi32(x)
      [] name = "_mm_cvtepi16_epi64" -> _mm_cvtepi16_epi64(x)
      [] name = "_mm_cvtepi32_epi64" -> _mm_cvtepi32_epi64(x)
      [] name = "_mm_cvtepu8_epi16"  -> _mm_cvtepu8_epi16(x)
      [] name = "_mm_cvtepu8_epi32"  -> _mm_cvtepu8_epi32(x)
      [] name = "_mm_cvtepu8_epi64"  -> _mm_cvtepu8_epi64(x)
      [] name = "_mm_cvtepu16_epi32" -> _mm_cvtepu16_epi32(x)
      [] name = "_mm_cvtepu16_epi64" -> _mm_cvtepu16_epi64(x)
      [] name = "_mm_cvtepu32_epi64" -> _mm_cvtepu32_epi64(x)

---------------------------------------------------------------------------
(* C7: the widening conversions preserve the value of the lanes they       *)
(* consume.  Output lane k, read as a signed integer, is worth what source *)
(* lane k is worth, read as signed for the _mm_cvtepi* bindings (negative  *)
(* lanes stay negative) and as unsigned for the _mm_cvtepu* bindings (a    *)
(* lane with its top bit set gives a non-negative output), for every k     *)
(* below the output lane count.                                            *)
WideningPreservesValue ==
    op \in CvtOps =>
        LET sh == CvtShape(op)
        IN  /\ Len(ret) = 16
            /\ \A k \in 0..(Lanes(sh.to) - 1) :
                  /\ Num(Lane(ret, sh.to, k), TRUE) = Num(Lane(a, sh.from, k), sh.signed)
                  /\ ~sh.signed => ~Num(Lane(ret, sh.to, k), TRUE).neg

\* A u32 lane with its top bit set has been zero-extended.
WideningPreservesValueWitness ==
    /\ op = "_mm_cvtepu32_epi64"
    /\ a[4] >= 128
    /\ Lane(ret, 8, 0) = Lane(a, 4, 0) \o <<0, 0, 0, 0>>

---------------------------------------------------------------------------
(* C8: the widening conversions read no lane beyond the prefix they        *)
(* consume.  With k output lanes, the call returns what it returns on      *)
(* every register that agrees with a on the source lanes 0..k-1: on any    *)
(* other operand of the model that does, and on a with the lanes from k    *)
(* up cleared, filled with ones, or complemented.                          *)
WideningIgnoresUpperLanes ==
    op \in CvtOps =>
        LET sh     == CvtShape(op)
            used   == Lanes(sh.to) * sh.from
            prefix == SubSeq(a, 1, used)
        IN  /\ \A x \in CvtRegs :
                  SubSeq(x, 1, used) = prefix => Cvt(op, x).ret = ret
            /\ ret = Cvt(op, prefix \o [n \in 1..(16 - used) |-> 0]).ret
            /\ ret = Cvt(op, prefix \o [n \in 1..(16 - used) |-> 255]).ret
            /\ ret = Cvt(op, prefix \o [n \in 1..(16 - used) |-> 255 - a[used + n]]).ret

\* A conversion of two lanes has run on a register whose other lanes are not zero.
WideningIgnoresUpperLanesWitness ==
    /\ op = "_mm_cvtepi16_epi64"
    /\ a = Mixed
    /\ \A n \in 5..16 : a[n] # 0

---------------------------------------------------------------------------
(* C9: saturating narrow.  Lanes 0..3 of what _mm_packus_epi32(a, b)       *)
(* returns are the lanes of a and lanes 4..7 the lanes of b, each clamped  *)
(* to the range of u16: a negative lane gives 0, a lane above 65535 gives  *)
(* 65535, any other lane is unchanged; no lane wraps modulo 2^16.          *)
SaturatingNarrow ==
    op = "_mm_packus_epi32" =>
        /\ Len(ret) = 16
        /\ \A k \in 0..7 :
              LET v == Signed(Lane(IF k < 4 THEN a ELSE b, 4, k % 4))
                  r == Unsigned(Lane(ret, 2, k))
              IN  /\ v < 0 => r = 0
                  /\ v > 65535 => r = 65535
                  /\ (v >= 0 /\ v <= 65535) => r = v

\* The call of the test, and a call with lanes above the range of u16.
SaturatingNarrowWitness ==
    \/ /\ op = "_mm_packus_epi32"
       /\ a = New(<<1, 2, 3, 4>>, 4) /\ b = New(<<-1, -2, -3, -4>>, 4)
       /\ ret = New(<<1, 2, 3, 4, 0, 0, 0, 0>>, 2)
    \/ /\ op = "_mm_packus_epi32"
       /\ a = New(<<65535, 65536, 70000, I32Max>>, 4)
       /\ Lane(ret, 2, 1) = <<255, 255>>

---------------------------------------------------------------------------
(* C10: horizontal minimum.  Lane 0 of what _mm_minpos_epu16(a) returns is *)
(* the least of the eight unsigned 16-bit lanes of a, lane 1 is the index  *)
(* of the lowest lane that holds it, and lanes 2..7 are zero.              *)
HorizontalMinimum ==
    op = "_mm_minpos_epu16" =>
        LET val(k) == Unsigned(Lane(a, 2, k))
            least  == Unsigned(Lane(ret, 2, 0))
            at     == Unsigned(Lane(ret, 2, 1))
        IN  /\ Len(ret) = 16
            /\ \A k \in 0..7 : least <= val(k)
            /\ at \in 0..7
            /\ val(at) = least
            /\ \A k \in 0..7 : k < at => val(k) # least
            /\ \A k \in 2..7 : Lane(ret, 2, k) = <<0, 0>>

\* The least value is held by two lanes, neither the first, and one of the
\* other lanes has its top bit set.
HorizontalMinimumWitness ==
    /\ op = "_mm_minpos_epu16"
    /\ a = New(<<65535, 32768, 13, 65535, 13, 32768, 65535, 65535>>, 2)
    /\ ret = New(<<13, 2, 0, 0, 0, 0, 0, 0>>, 2)

---------------------------------------------------------------------------
(* Float lanes as exact integers: the value of the lane bs times 2^k, for  *)
(* a lane that is a multiple of 2^-k.                                      *)
Scaled(bs, k) ==
    LET x == FDecode(bs)
    IN  IF x.m = 0 THEN 0
        ELSE (IF x.neg THEN -1 ELSE 1) * x.m * 2^(x.e + k)

RECURSIVE SumOver(_, _)
\* The sum of f[k] over the set ks.
SumOver(f, ks) ==
    IF ks = {} THEN 0
    ELSE LET k == CHOOSE k \in ks : TRUE IN f[k] + SumOver(f, ks \ {k})

---------------------------------------------------------------------------
(* C11: conditional dot product.  For _mm_dp_pd (2 lanes) and _mm_dp_ps    *)
(* (4 lanes) with n lanes, let S be the sum of a[k] * b[k] over the lanes  *)
(* k whose condition bit (bit 4 + k of imm8) is set, a product whose       *)
(* condition bit is clear counting 0; then lane j of the result is S when  *)
(* broadcast bit j (bit j of imm8) is set and 0 when it is clear.  The     *)
(* first operand's lanes are multiples of 1/4 and the second's of 1/2, so  *)
(* the products and S are compared in eighths.                             *)
ConditionalDotProduct ==
    op \in {"_mm_dp_pd", "_mm_dp_ps"} =>
        LET w == IF op = "_mm_dp_pd" THEN 8 ELSE 4
            n == Lanes(w)
            prod == [k \in 0..(n - 1) |->
                        Scaled(Lane(a, w, k), 2) * Scaled(Lane(b, w, k), 1)]
            S == SumOver(prod, {k \in 0..(n - 1) : BitOf(imm, 4 + k) = 1})
        IN  /\ Len(ret) = 16
            /\ \A j \in 0..(n - 1) :
                  Scaled(Lane(ret, w, j), 3) = IF BitOf(imm, j) = 1 THEN S ELSE 0

\* The call of tests::_mm_dp_pd: both products kept, the sum in lane 0 only.
ConditionalDotProductWitness ==
    /\ op = "_mm_dp_pd"
    /\ a = F64T
    /\ b = NewF(<<Dy(1, 0), Dy(4, 0)>>, 8)
    /\ imm = 49
    /\ ret = NewF(<<Dy(14, 0), Dy(0, 0)>>, 8)

---------------------------------------------------------------------------
(* C12: windowed sum of absolute differences.  With i = 4 * bit 2 of imm8  *)
(* and j = 4 * (imm8 AND 3), lane k (k = 0..7) of what                     *)
(* _mm_mpsadbw_epu8(a, b, imm8) returns is                                 *)
(* |a[i+k] - b[j]| + |a[i+k+1] - b[j+1]| + |a[i+k+2] - b[j+2]|             *)
(* + |a[i+k+3] - b[j+3]| on the unsigned bytes; every byte read is a byte  *)
(* of the register and every sum fits in 16 bits.                          *)
WindowedSad ==
    op = "_mm_mpsadbw_epu8" =>
        LET ii == 4 * ((imm \div 4) % 2)
            jj == 4 * (imm % 4)
            ua(n) == Unsigned(Lane(a, 1, n))
            ub(n) == Unsigned(Lane(b, 1, n))
            dist(p, q) == IF p < q THEN q - p ELSE p - q
            sad(k) == SumOver([t \in 0..3 |-> dist(ua(ii + k + t), ub(jj + t))], 0..3)
        IN  /\ Len(ret) = 16
            /\ \A k \in 0..7 :
                  /\ ii + k + 3 \in 0..15
                  /\ jj + 3 \in 0..15
                  /\ sad(k) < 65536
                  /\ Unsigned(Lane(ret, 2, k)) = sad(k)

\* The last call of tests::_mm_mpsadbw_epu8, both offsets at their greatest,
\* and a call on bytes above 127 with bits of the immediate beyond the third set.
WindowedSadWitness ==
    \/ /\ op = "_mm_mpsadbw_epu8"
       /\ a = Iota /\ b = Iota /\ imm = 7
       /\ ret = New(<<32, 28, 24, 20, 16, 12, 8, 4>>, 2)
    \/ /\ op = "_mm_mpsadbw_epu8"
       /\ a = Mixed /\ b = HighBits /\ imm = 253
       /\ ret # Zero

---------------------------------------------------------------------------
(* Rounding to an integral value, stated on exact integers: r and v are a  *)
(* result and an operand in quarters, mode is the direction (0 nearest,    *)
(* ties to even; 1 toward -inf; 2 toward +inf; 3 toward zero).             *)
Magnitude(v) == IF v < 0 THEN -v ELSE v

RoundedTo(r, v, mode) ==
    /\ r % 4 = 0
    /\ CASE mode = 0 -> /\ Magnitude(r - v) <= 2
                        /\ Magnitude(r - v) = 2 => (r \div 4) % 2 = 0
         [] mode = 1 -> r <= v /\ v < r + 4
         [] mode = 2 -> v <= r /\ r < v + 4
         [] mode = 3 -> /\ Magnitude(r) <= Magnitude(v)
                        /\ Magnitude(v) < Magnitude(r) + 4
                        /\ (r = 0 \/ (r < 0) = (v < 0))

\* The direction a rounding directive names under the ambient mode rc: the
\* ambient one when bit 2 of the directive is set, its bits 1:0 otherwise.
Direction(directive, rc) ==
    IF (directive \div 4) % 2 = 1 THEN rc ELSE directive % 4

\* The bindings that round one lane, the lane width of each, the directive
\* each hands on, and the call of each.
ScalarRoundings ==
    { "_mm_round_sd", "_mm_floor_sd", "_mm_ceil_sd",
      "_mm_round_ss", "_mm_floor_ss", "_mm_ceil_ss" }

ScalarLaneBytes(name) ==
    IF name \in {"_mm_round_sd", "_mm_floor_sd", "_mm_ceil_sd"} THEN 8 ELSE 4

ScalarDirective(name, n) ==
    CASE name \in {"_mm_round_sd", "_mm_round_ss"} -> n
      [] name \in {"_mm_floor_sd", "_mm_floor_ss"} -> 1
      [] name \in {"_mm_ceil_sd", "_mm_ceil_ss"} -> 2

ScalarRounding(name, x, y, n, rc) ==
    CASE name = "_mm_round_sd" -> _mm_round_sd(x, y, n, rc)
      [] name = "_mm_floor_sd" -> _mm_floor_sd(x, y, rc)
      [] name = "_mm_ceil_sd" -> _mm_ceil_sd(x, y, rc)
      [] name = "_mm_round_ss" -> _mm_round_ss(x, y, n, rc)
      [] name = "_mm_floor_ss" -> _mm_floor_ss(x, y, rc)
      [] name = "_mm_ceil_ss" -> _mm_ceil_ss(x, y, rc)

---------------------------------------------------------------------------
(* C13: scalar rounding leaves the upper lanes untouched.  For             *)
(* _mm_round_sd, _mm_floor_sd, _mm_ceil_sd (2 lanes) and _mm_round_ss,     *)
(* _mm_floor_ss, _mm_ceil_ss (4 lanes), lane 0 of the result is lane 0 of  *)
(* b rounded under the directive, every lane k >= 1 of the result is lane  *)
(* k of a, and the result is the same whatever lane 0 of a and the lanes   *)
(* k >= 1 of b hold.                                                       *)
ScalarRoundingFrame ==
    op \in ScalarRoundings =>
        LET w == ScalarLaneBytes(op)
            others == {Zero, [k \in 1..16 |-> 255], a, b, [k \in 1..16 |-> 255 - b[k]]}
        IN  /\ Len(ret) = 16
            /\ RoundedTo(Scaled(Lane(ret, w, 0), 2), Scaled(Lane(b, w, 0), 2),
                         Direction(ScalarDirective(op, imm), mxcsr))
            /\ \A k \in 1..(Lanes(w) - 1) : Lane(ret, w, k) = Lane(a, w, k)
            /\ \A r \in others :
                  ret = ScalarRounding(op, WithLane(a, w, 0, Lane(r, w, 0)),
                                       WithLane(r, w, 0, Lane(b, w, 0)), imm, mxcsr).ret

\* The call of tests::_mm_floor_ss: -1.5 rounded down in lane 0, the other
\* lanes those of a.
ScalarRoundingFrameWitness ==
    /\ op = "_mm_floor_ss"
    /\ a = F32H
    /\ b = F32L
    /\ ret = NewF(<<Dy(-2, 0), Dy(9, 1), Dy(17, 1), Dy(33, 1)>>, 4)

---------------------------------------------------------------------------
(* The bindings that take a rounding directive: the lane width of each,    *)
(* the lanes each rounds and of which operand, and the call of each.       *)
DirectedRoundings == {"_mm_round_pd", "_mm_round_ps", "_mm_round_sd", "_mm_round_ss"}

DirectedLaneBytes(name) == IF name \in {"_mm_round_pd", "_mm_round_sd"} THEN 8 ELSE 4

DirectedRounding(name, x, y, n, rc) ==
    CASE name = "_mm_round_pd" -> _mm_round_pd(x, n, rc)
      [] name = "_mm_round_ps" -> _mm_round_ps(x, n, rc)
      [] name = "_mm_round_sd" -> _mm_round_sd(x, y, n, rc)
      [] name = "_mm_round_ss" -> _mm_round_ss(x, y, n, rc)

---------------------------------------------------------------------------
(* C14: ambient-mode rounding follows the environment setting.  When       *)
(* _mm_round_pd, _mm_round_ps, _mm_round_sd or _mm_round_ss is called with *)
(* a directive that has _MM_FROUND_CUR_DIRECTION set, every rounded lane   *)
(* is the lane rounded in the direction the ambient rounding mode holds at *)
(* the call; when the directive names an explicit target, every rounded    *)
(* lane is rounded toward that target and the result is the same under     *)
(* every ambient mode.                                                     *)
AmbientRounding ==
    op \in DirectedRoundings =>
        LET w       == DirectedLaneBytes(op)
            scalar  == op \in {"_mm_round_sd", "_mm_round_ss"}
            from    == IF scalar THEN b ELSE a
            rounded == IF scalar THEN {0} ELSE 0..(Lanes(w) - 1)
            ambient == (imm \div _MM_FROUND_CUR_DIRECTION) % 2 = 1
        IN  /\ ambient =>
                  \A k \in rounded :
                      RoundedTo(Scaled(Lane(ret, w, k), 2), Scaled(Lane(from, w, k), 2), mxcsr)
            /\ ~ambient =>
                  /\ \A k \in rounded :
                        RoundedTo(Scaled(Lane(ret, w, k), 2), Scaled(Lane(from, w, k), 2),
                                  imm % 4)
                  /\ \A rc \in RoundingModes :
                        ret = DirectedRounding(op, a, b, imm, rc).ret

\* The call of tests::_mm_round_sd: the ambient mode set to round toward
\* zero, the directive _MM_FROUND_CUR_DIRECTION, and -2.5 rounded to -2.0.
AmbientRoundingWitness ==
    /\ op = "_mm_round_sd"
    /\ mxcsr = _MM_FROUND_TO_ZERO
    /\ imm = _MM_FROUND_CUR_DIRECTION
    /\ a = F64U
    /\ b = NewF(<<Dy(-5, 1), Dy(-9, 1)>>, 8)
    /\ ret = NewF(<<Dy(-2, 0), Dy(7, 1)>>, 8)

---------------------------------------------------------------------------
(* The call of a binding whose instruction consults the ambient mode.      *)
AmbientBindings ==
    { "_mm_dp_pd", "_mm_dp_ps", "_mm_round_pd", "_mm_round_ps", "_mm_round_sd",
      "_mm_round_ss", "_mm_floor_pd", "_mm_floor_ps", "_mm_floor_sd", "_mm_floor_ss",
      "_mm_ceil_pd", "_mm_ceil_ps", "_mm_ceil_sd", "_mm_ceil_ss" }

AmbientBinding(name, x, y, n, rc) ==
    CASE name \in Specialized -> Binding(name, x, y, n, rc)
      [] name \in ScalarRoundings -> ScalarRounding(name, x, y, n, rc)
      [] name = "_mm_floor_pd" -> _mm_floor_pd(x, rc)
      [] name = "_mm_floor_ps" -> _mm_floor_ps(x, rc)
      [] name = "_mm_ceil_pd" -> _mm_ceil_pd(x, rc)
      [] name = "_mm_ceil_ps" -> _mm_ceil_ps(x, rc)

---------------------------------------------------------------------------
---------------------------------------------------------------------------
(* The rounding targets and the exception policies of the catalog.         *)
ExplicitTargets ==
    { _MM_FROUND_TO_NEAREST_INT, _MM_FROUND_TO_NEG_INF, _MM_FROUND_TO_POS_INF,
      _MM_FROUND_TO_ZERO }

Policies == {_MM_FROUND_RAISE_EXC, _MM_FROUND_NO_EXC}

\* The fixed encodings; the ambient mode holds one of the explicit targets,
\* in the same encoding.
Encodings ==
    /\ mxcsr \in ExplicitTargets
    /\ _MM_FROUND_TO_NEAREST_INT = 0
    /\ _MM_FROUND_TO_NEG_INF = 1
    /\ _MM_FROUND_TO_POS_INF = 2
    /\ _MM_FROUND_TO_ZERO = 3
    /\ _MM_FROUND_CUR_DIRECTION = 4
    /\ _MM_FROUND_RAISE_EXC = 0
    /\ _MM_FROUND_NO_EXC = 8

\* The composites that combine the target t with the policy p.
Combining(t, p) == {c \in Composites : c.target = t /\ c.policy = p}

---------------------------------------------------------------------------
(* C16, as the catalog is: the public constants provide six composites.    *)
(* Each of the four explicit targets (nearest, toward -inf, toward +inf,   *)
(* toward zero) has one composite with the raise-exceptions policy and     *)
(* none with the suppress-exceptions policy; the ambient-mode target has   *)
(* one composite with raise and one with suppress.  The value of every     *)
(* composite is the bitwise OR of its target and its policy, the values    *)
(* being 0, 1, 2, 3, 4 and 12, with the encodings nearest = 0,             *)
(* toward -inf = 1, toward +inf = 2, toward zero = 3, ambient = 4,         *)
(* raise = 0, suppress = 8.                                                *)
DirectiveCatalog ==
    /\ Encodings
    /\ Cardinality(Composites) = 6
    /\ \A c \in Composites : c.value = BitOr(c.target, c.policy)
    /\ {c.value : c \in Composites} = {0, 1, 2, 3, 4, 12}
    /\ \A t \in ExplicitTargets :
          /\ Cardinality(Combining(t, _MM_FROUND_RAISE_EXC)) = 1
          /\ Combining(t, _MM_FROUND_NO_EXC) = {}
    /\ \A p \in Policies : Cardinality(Combining(_MM_FROUND_CUR_DIRECTION, p)) = 1

\* A rounding called with the composite _MM_FROUND_NEARBYINT, which reached
\* the instruction as the literal 12.
DirectiveCatalogWitness ==
    /\ op = "_mm_round_ps"
    /\ imm = _MM_FROUND_NEARBYINT
    /\ branch = 12

(* C16, as stated: every one of the four explicit targets has a composite  *)
(* with the raise policy and a composite with the suppress policy, the     *)
(* ambient target has one with each, and every composite is the bitwise OR *)
(* of its target and its policy under the fixed encodings.                 *)
DirectiveCatalogAsStated ==
    /\ Encodings
    /\ \A c \in Composites : c.value = BitOr(c.target, c.policy)
    /\ \A t \in ExplicitTargets \cup {_MM_FROUND_CUR_DIRECTION} :
          \A p \in Policies : Combining(t, p) # {}

---------------------------------------------------------------------------
(* C17: float lane extraction is a bit reinterpretation.  The i32 that     *)
(* _mm_extract_ps(a, imm8) returns has the 32 bits of lane imm8 AND 3 of   *)
(* a, so that read back as f32 it is that lane; it is not the lane's value *)
(* converted to an integer (which, for a lane that is not zero, is a       *)
(* different integer).                                                     *)
ExtractPsBits ==
    op = "_mm_extract_ps" =>
        LET l == Lane(a, 4, imm % 4)
            v == Scaled(l, 2)
            truncated == (IF v < 0 THEN -1 ELSE 1) * (Magnitude(v) \div 4)
        IN  /\ ret \in I32Min..I32Max
            /\ Encode(ret, 4) = l
            /\ (a \in F32A \cup F32B \cup {F32E} /\ v # 0) => ret # truncated

\* The second call of tests::_mm_extract_ps: index 5, lane 1, the bits of 1.0.
ExtractPsBitsWitness ==
    /\ op = "_mm_extract_ps"
    /\ a = F32E
    /\ imm = 5
    /\ ret = 1065353216

---------------------------------------------------------------------------
(* The eight extremum bindings: the lane width, the signedness and the     *)
(* direction each declares, and the call of each.                          *)
MinMaxOps ==
    { "_mm_max_epi8", "_mm_max_epu16", "_mm_max_epi32", "_mm_max_epu32",
      "_mm_min_epi8", "_mm_min_epu16", "_mm_min_epi32", "_mm_min_epu32" }

MinMaxShape(name) ==
    CASE name = "_mm_max_epi8"  -> [w |-> 1, signed |-> TRUE,  max |-> TRUE]
      [] name = "_mm_max_epu16" -> [w |-> 2, signed |-> FALSE, max |-> TRUE]
      [] name = "_mm_max_epi32" -> [w |-> 4, signed |-> TRUE,  max |-> TRUE]
      [] name = "_mm_max_epu32" -> [w |-> 4, signed |-> FALSE, max |-> TRUE]
      [] name = "_mm_min_epi8"  -> [w |-> 1, signed |-> TRUE,  max |-> FALSE]
      [] name = "_mm_min_epu16" -> [w |-> 2, signed |-> FALSE, max |-> FALSE]
      [] name = "_mm_min_epi32" -> [w |-> 4, signed |-> TRUE,  max |-> FALSE]
      [] name = "_mm_min_epu32" -> [w |-> 4, signed |-> FALSE, max |-> FALSE]

MinMax(name, x, y) ==
    CASE name = "_mm_max_epi8"  -> _mm_max_epi8(x, y)
      [] name = "_mm_max_epu16" -> _mm_max_epu16(x, y)
      [] name = "_mm_max_epi32" -> _mm_max_epi32(x, y)
      [] name = "_mm_max_epu32" -> _mm_max_epu32(x, y)
      [] name = "_mm_min_epi8"  -> _mm_min_epi8(x, y)
      [] name = "_mm_min_epu16" -> _mm_min_epu16(x, y)
      [] name = "_mm_min_epi32" -> _mm_min_epi32(x, y)
      [] name = "_mm_min_epu32" -> _mm_min_epu32(x, y)

\* x <= y for two lanes as the integers they are: signed lanes by their
\* value, unsigned lanes by their value too, a 32-bit unsigned lane as its
\* high and its low half.
AtMost(x, y, signed) ==
    IF signed THEN Signed(x) <= Signed(y)
    ELSE IF Len(x) = 4
         THEN LET hx == Unsigned(SubSeq(x, 3, 4))
                  hy == Unsigned(SubSeq(y, 3, 4))
              IN  hx < hy \/ (hx = hy /\ Unsigned(SubSeq(x, 1, 2)) <= Unsigned(SubSeq(y, 1, 2)))
         ELSE Unsigned(x) <= Unsigned(y)

---------------------------------------------------------------------------
(* C18: per-lane extremum respects the declared signedness.  Lane k of     *)
(* _mm_min_epi8 / _mm_min_epi32 (of _mm_max_epi8 / _mm_max_epi32) is the   *)
(* smaller (the larger) of a[k] and b[k] compared as signed integers, lane *)
(* k of _mm_min_epu16 / _mm_min_epu32 (of _mm_max_epu16 / _mm_max_epu32)   *)
(* the smaller (the larger) compared as unsigned integers; every lane of   *)
(* the result is one of the two input lanes, and the call with a and b     *)
(* exchanged returns the same register.                                    *)
SignednessOfExtremum ==
    op \in MinMaxOps =>
        LET sh == MinMaxShape(op)
        IN  /\ Len(ret) = 16
            /\ \A k \in 0..(Lanes(sh.w) - 1) :
                  LET x == Lane(a, sh.w, k)
                      y == Lane(b, sh.w, k)
                      r == Lane(ret, sh.w, k)
                  IN  /\ r \in {x, y}
                      /\ IF sh.max
                         THEN AtMost(x, r, sh.signed) /\ AtMost(y, r, sh.signed)
                         ELSE AtMost(r, x, sh.signed) /\ AtMost(r, y, sh.signed)
            /\ ret = MinMax(op, b, a).ret

\* The call of tests::_mm_min_epi8_2, on negative lanes, and an unsigned
\* minimum of lanes with the top bit set in one operand only.
SignednessOfExtremumWitness ==
    \/ /\ op = "_mm_min_epi8"
       /\ a = New(<<1, -4, -5, 8, -9, -12, 13, -16, 17, 20, 21, 24, 25, 28, 29, 32>>, 1)
       /\ b = New(<<2, -3, -6, 7, -10, -11, 14, -15, 18, 19, 22, 23, 26, 27, 30, 31>>, 1)
       /\ ret = New(<<1, -4, -6, 7, -10, -12, 13, -16, 17, 19, 21, 23, 25, 27, 29, 31>>, 1)
    \/ /\ op = "_mm_min_epu32"
       /\ a = New(<<-1, 4, 5, -7>>, 4)
       /\ b = New(<<2, 3, 6, 7>>, 4)
       /\ ret = b

---------------------------------------------------------------------------
---------------------------------------------------------------------------
(* C20: integer lane insertion changes exactly one lane.  The result of    *)
(* _mm_insert_epi8(a, i, imm8) (of _mm_insert_epi32) has i in lane         *)
(* imm8 AND 15 (imm8 AND 3) and the lane of a in every other lane, and     *)
(* _mm_extract_epi8 (_mm_extract_epi32) of the result at the same index    *)
(* returns i, for the byte lane as the integer 0..255.                     *)
InsertChangesOneLane ==
    /\ op = "_mm_insert_epi8" =>
          /\ Len(ret) = 16
          /\ \A k \in 0..15 :
                IF k = imm % 16
                THEN Signed(Lane(ret, 1, k)) = i
                ELSE Lane(ret, 1, k) = Lane(a, 1, k)
          /\ _mm_extract_epi8(ret, imm).ret = i % 256
    /\ op = "_mm_insert_epi32" =>
          /\ Len(ret) = 16
          /\ \A k \in 0..3 :
                IF k = imm % 4
                THEN Signed(Lane(ret, 4, k)) = i
                ELSE Lane(ret, 4, k) = Lane(a, 4, k)
          /\ _mm_extract_epi32(ret, imm).ret = i

\* The second calls of tests::_mm_insert_epi8 and tests::_mm_insert_epi32,
\* with an index beyond the lanes, and a negative byte at lane 15.
InsertChangesOneLaneWitness ==
    \/ /\ op = "_mm_insert_epi8"
       /\ a = Zero /\ i = 32 /\ imm = 17
       /\ ret = replace(Zero, 1, 1, <<32>>)
    \/ /\ op = "_mm_insert_epi32"
       /\ a = Zero /\ i = 32 /\ imm = 5
       /\ ret = replace(Zero, 4, 1, <<32, 0, 0, 0>>)
    \/ /\ op = "_mm_insert_epi8"
       /\ a = Iota /\ i = -1 /\ imm = 255
       /\ ret[16] = 255

---------------------------------------------------------------------------
(* C21: 8-bit extraction is zero-extended.  _mm_extract_epi8 returns the   *)
(* selected byte as the unsigned integer 0..255 (a lane holding -1 gives   *)
(* 255), _mm_extract_epi32 the selected 32-bit lane as the signed integer  *)
(* it holds.                                                               *)
ExtractZeroExtends ==
    /\ op = "_mm_extract_epi8" =>
          /\ ret \in 0..255
          /\ ret = a[(imm % 16) + 1]
          /\ Signed(Lane(a, 1, imm % 16)) < 0 => ret = Signed(Lane(a, 1, imm % 16)) + 256
    /\ op = "_mm_extract_epi32" =>
          /\ ret \in I32Min..I32Max
          /\ Encode(ret, 4) = Lane(a, 4, imm % 4)
          /\ ret < 0 <=> a[4 * (imm % 4) + 4] >= 128

\* The first call of tests::_mm_extract_epi8, on the lane holding -1, and
\* a 32-bit lane with the sign bit set.
ExtractZeroExtendsWitness ==
    \/ op = "_mm_extract_epi8" /\ a = NegFirst /\ imm = 0 /\ ret = 255
    \/ op = "_mm_extract_epi32" /\ a = HighBits /\ imm = 2 /\ ret < 0

---------------------------------------------------------------------------
(* The floor and ceil bindings: the lane width of each, whether it rounds  *)
(* every lane of a or lane 0 of b, the direction it names (1 toward -inf,  *)
(* 2 toward +inf), the call of each and the call of the round binding of   *)
(* the same shape.                                                         *)
Floors == {"_mm_floor_pd", "_mm_floor_ps", "_mm_floor_sd", "_mm_floor_ss"}
Ceils == {"_mm_ceil_pd", "_mm_ceil_ps", "_mm_ceil_sd", "_mm_ceil_ss"}

FixedLaneBytes(name) ==
    IF name \in {"_mm_floor_pd", "_mm_floor_sd", "_mm_ceil_pd", "_mm_ceil_sd"} THEN 8 ELSE 4

FixedIsScalar(name) ==
    name \in {"_mm_floor_sd", "_mm_floor_ss", "_mm_ceil_sd", "_mm_ceil_ss"}

FixedRounding(name, x, y, rc) ==
    CASE name = "_mm_floor_pd" -> _mm_floor_pd(x, rc)
      [] name = "_mm_floor_ps" -> _mm_floor_ps(x, rc)
      [] name = "_mm_floor_sd" -> _mm_floor_sd(x, y, rc)
      [] name = "_mm_floor_ss" -> _mm_floor_ss(x, y, rc)
      [] name = "_mm_ceil_pd" -> _mm_ceil_pd(x, rc)
      [] name = "_mm_ceil_ps" -> _mm_ceil_ps(x, rc)
      [] name = "_mm_ceil_sd" -> _mm_ceil_sd(x, y, rc)
      [] name = "_mm_ceil_ss" -> _mm_ceil_ss(x, y, rc)

RoundOfShape(name, x, y, n, rc) ==
    CASE name \in {"_mm_floor_pd", "_mm_ceil_pd"} -> _mm_round_pd(x, n, rc)
      [] name \in {"_mm_floor_ps", "_mm_ceil_ps"} -> _mm_round_ps(x, n, rc)
      [] name \in {"_mm_floor_sd", "_mm_ceil_sd"} -> _mm_round_sd(x, y, n, rc)
      [] name \in {"_mm_floor_ss", "_mm_ceil_ss"} -> _mm_round_ss(x, y, n, rc)

---------------------------------------------------------------------------
(* C22: floor and ceil are the fixed-directive instances of round.  Each   *)
(* _mm_floor_* call returns what the _mm_round_* binding of the same shape *)
(* returns with _MM_FROUND_FLOOR, each _mm_ceil_* call what it returns     *)
(* with _MM_FROUND_CEIL; every rounded lane is the largest integral value  *)
(* <= the input for floor and the smallest integral value >= the input for *)
(* ceil; and the result is the same under every ambient rounding mode.     *)
FloorCeilAreRound ==
    op \in Floors \cup Ceils =>
        LET w   == FixedLaneBytes(op)
            dir == IF op \in Floors THEN _MM_FROUND_FLOOR ELSE _MM_FROUND_CEIL
            to  == IF op \in Floors THEN 1 ELSE 2
        IN  /\ ret = RoundOfShape(op, a, b, dir, mxcsr).ret
            /\ IF FixedIsScalar(op)
               THEN RoundedTo(Scaled(Lane(ret, w, 0), 2), Scaled(Lane(b, w, 0), 2), to)
               ELSE \A k \in 0..(Lanes(w) - 1) :
                        RoundedTo(Scaled(Lane(ret, w, k), 2), Scaled(Lane(a, w, k), 2), to)
            /\ \A rc \in RoundingModes : ret = FixedRounding(op, a, b, rc).ret

\* The calls of tests::_mm_floor_pd and tests::_mm_ceil_sd under an ambient
\* mode other than the default: 2.5 -> 2.0 down, -2.5 -> -2.0 up.
FloorCeilAreRoundWitness ==
    \/ /\ op = "_mm_floor_pd"
       /\ a = F64H
       /\ mxcsr = _MM_FROUND_TO_POS_INF
       /\ ret = NewF(<<Dy(2, 0), Dy(4, 0)>>, 8)
    \/ /\ op = "_mm_ceil_sd"
       /\ a = F64U
       /\ b = NewF(<<Dy(-5, 1), Dy(-9, 1)>>, 8)
       /\ mxcsr = _MM_FROUND_TO_NEG_INF
       /\ ret = NewF(<<Dy(-2, 0), Dy(7, 1)>>, 8)

---------------------------------------------------------------------------
(* Exact products, on integers of any width (a sign and a magnitude).      *)

RECURSIVE AddMag(_, _, _)
\* The sum of two magnitudes and a carry.
AddMag(x, y, carry) ==
    IF x = <<>> /\ y = <<>> THEN (IF carry = 0 THEN <<>> ELSE <<carry>>)
    ELSE LET t == (IF x = <<>> THEN 0 ELSE x[1]) + (IF y = <<>> THEN 0 ELSE y[1]) + carry
         IN  <<t % 256>> \o AddMag(IF x = <<>> THEN <<>> ELSE Tail(x),
                                    IF y = <<>> THEN <<>> ELSE Tail(y), t \div 256)

RECURSIVE ScaleMag(_, _, _)
\* The magnitude x times the digit d (0..255), plus a carry.
ScaleMag(x, d, carry) ==
    IF x = <<>> THEN (IF carry = 0 THEN <<>> ELSE <<carry>>)
    ELSE LET t == x[1] * d + carry
         IN  <<t % 256>> \o ScaleMag(Tail(x), d, t \div 256)

RECURSIVE MulMag(_, _)
\* The product of two magnitudes: x times the low digit of y, plus 256
\* times the product of x and the rest of y.
MulMag(x, y) ==
    IF y = <<>> THEN <<>>
    ELSE AddMag(ScaleMag(x, y[1], 0), <<0>> \o MulMag(x, Tail(y)), 0)

\* The exact product of two integers.
Product(x, y) ==
    LET m == StripHigh(MulMag(x.mag, y.mag))
    IN  [neg |-> m # <<>> /\ x.neg # y.neg, mag |-> m]

\* The integer n modulo 2^(8 * w), as the w bytes of a lane.
LowBytes(n, w) ==
    LET low == SubSeq(n.mag \o [k \in 1..w |-> 0], 1, w)
    IN  IF n.neg THEN Negated(low, 1) ELSE low

---------------------------------------------------------------------------
(* C23: the low 32-bit multiply wraps.  Lane k of _mm_mullo_epi32(a, b) is *)
(* the low 32 bits of the exact product a[k] * b[k], a signed 32-bit       *)
(* integer whatever the product (1234567 * 666666 gives -1589877210); a    *)
(* product out of the range of i32 is neither refused nor taken to an end  *)
(* of the range.                                                           *)
LowMultiplyWraps ==
    op = "_mm_mullo_epi32" =>
        /\ Len(ret) = 16
        /\ \A k \in 0..3 :
              LET p == Product(Num(Lane(a, 4, k), TRUE), Num(Lane(b, 4, k), TRUE))
              IN  /\ Lane(ret, 4, k) = LowBytes(p, 4)
                  /\ Signed(Lane(ret, 4, k)) \in I32Min..I32Max
                  /\ Len(p.mag) <= 4 /\ ~p.neg /\ (p.mag = <<>> \/ Len(p.mag) < 4 \/ p.mag[4] < 128)
                        => Num(Lane(ret, 4, k), TRUE) = p

\* The second call of tests::_mm_mullo_epi32, with two products that do not
\* fit in 32 bits.
LowMultiplyWrapsWitness ==
    /\ op = "_mm_mullo_epi32"
    /\ a = New(<<15, -2, 1234567, 99999>>, 4)
    /\ b = New(<<-20, -256, 666666, -99999>>, 4)
    /\ ret = New(<<-300, 512, -1589877210, -1409865409>>, 4)

---------------------------------------------------------------------------
(* C24: the widening multiply of the even lanes.  Lane 0 of                *)
(* _mm_mul_epi32(a, b) is the exact signed 64-bit product a[0] * b[0],     *)
(* lane 1 the exact signed 64-bit product a[2] * b[2]; lanes 1 and 3 of a  *)
(* and of b are ignored: a call whose operands agree with a and b on lanes *)
(* 0 and 2 returns the same register.                                      *)
WideningMultiply ==
    op = "_mm_mul_epi32" =>
        /\ Len(ret) = 16
        /\ \A k \in 0..1 :
              Num(Lane(ret, 8, k), TRUE) =
                  Product(Num(Lane(a, 4, 2 * k), TRUE), Num(Lane(b, 4, 2 * k), TRUE))
        /\ \A x \in MulRegs \cup {Zero}, y \in MulRegs \cup {Zero} :
              LET a2 == WithLane(WithLane(x, 4, 0, Lane(a, 4, 0)), 4, 2, Lane(a, 4, 2))
                  b2 == WithLane(WithLane(y, 4, 0, Lane(b, 4, 0)), 4, 2, Lane(b, 4, 2))
              IN  ret = _mm_mul_epi32(a2, b2).ret

\* The second call of tests::_mm_mul_epi32: -300 and 823043843622, which
\* is 0xBFA13C6626 and does not fit in 32 bits.
WideningMultiplyWitness ==
    /\ op = "_mm_mul_epi32"
    /\ a = New(<<15, 2, 1234567, 4>>, 4)
    /\ b = New(<<-20, -256, 666666, 666666>>, 4)
    /\ Lane(ret, 8, 0) = <<212, 254, 255, 255, 255, 255, 255, 255>>
    /\ Lane(ret, 8, 1) = <<38, 102, 60, 161, 191, 0, 0, 0>>
====
